---- MODULE Spec2Model ----
(***************************************************************************)
(* CyberEditor AI: the project store, the GitHub commit pipeline and the   *)
(* sliding-window rate limiter that guards every call to the hosting API.  *)
(*                                                                         *)
(* Nine specifications share the variables below:                          *)
(*   SpecRL      one RateLimiter instance driven by a clock                *)
(*   SpecCommit  githubService.commitFiles against a remote repository     *)
(*   SpecImport  githubService.verifyToken and getRepoContents             *)
(*   SpecStore   the useAppState project store                             *)
(*   SpecRender  useAppState's project calls between two renders           *)
(*   SpecErr     ErrorHandler and the assistant call's error paths         *)
(*   SpecPanel   SettingsPanel: saving and verifying the token, committing *)
(*   Spec        the App component: its handlers and calls in flight       *)
(*   SpecSettle  the App component's operations, every call answered       *)
(***************************************************************************)
EXTENDS Integers, Sequences, FiniteSets, TLC

VARIABLES
    requests,           \* RateLimiter.requests: the log of admitted timestamps
    now,                \* Date.now()
    rlLast,             \* the last isAllowed() call: log before it, its answer
    admitted            \* history: the timestamp of every admitted call

rlVars == <<requests, now, rlLast, admitted>>

VARIABLES
    cpc,                \* where commitFilesInternal stands
    cargs,              \* the arguments of the commitFiles call
    calls,              \* every request sent to the hosting API, in order
    blobSt,             \* per file: the state of its blob-creation promise
    cloc,               \* locals of commitFilesInternal (baseTreeSha, blobs, ...)
    cresult,            \* what the call returned or threw
    remoteHead,         \* refs/heads/{branch} at the remote
    reqAtCall           \* the rate limiter's log when commitFiles was entered

commitVars == <<cpc, cargs, calls, blobSt, cloc, cresult, remoteHead, reqAtCall>>

VARIABLES
    projects,           \* Projects: name -> files, in Object.keys order
    projectSources,     \* name -> ProjectSourceInfo, in Object.keys order
    activeProjectName,  \* '' (hook) or null (App) when there is none
    lastOp,             \* the last store operation: its arguments and the state before
    persisted,          \* hook: name -> path -> the content last stored at the source
    nOps                \* the number of store operations so far

VARIABLES
    activeFilePath,     \* App: the path open in the editor, "" for null
    isLoading,          \* App: the busy flag that disables the controls
    modalConfig,        \* App: the open dialog with what its callbacks captured
    settings,           \* App: EditorSettings (the token and the verified user)
    inflight            \* App: the awaited service calls with what they captured

uiVars == <<activeFilePath, isLoading, modalConfig, settings, inflight>>

VARIABLES
    api,                \* the verifyToken or getRepoContents call under way
    rendered,           \* hook: the state the callbacks of the last render closed over
    created             \* history: the names of the projects, oldest first

VARIABLES
    eh,                 \* ErrorHandler: the error raised, where, and what came out
    panel               \* SettingsPanel: its local state and verifications in flight

sideVars == <<eh, panel>>

extVars == <<api, rendered, created, sideVars>>

storeVars == <<projects, projectSources, activeProjectName, lastOp, persisted,
               nOps, uiVars, extVars>>

vars == <<rlVars, commitVars, storeVars>>

-----------------------------------------------------------------------------
(* Sequence helpers *)

Range(s) == {s[i] : i \in 1..Len(s)}

SelectSeqIdx(s, Keep(_)) ==
    LET F[i \in 0..Len(s)] ==
            IF i = 0 THEN <<>>
            ELSE IF Keep(i) THEN Append(F[i - 1], s[i]) ELSE F[i - 1]
    IN  F[Len(s)]

MinOf(S) == CHOOSE m \in S : \A x \in S : m <= x

-----------------------------------------------------------------------------
(* RateLimiter (utils/validation.ts) *)

\* Bounds of the model: the ceiling and window of the instance under test
\* and the last clock value.
RLMax == 2
RLWindow == 3
MaxTime == 7

\* this.requests.filter(timestamp => now - timestamp < this.windowMs)
FilterExpiredInclusive(reqs, t, windowMs) ==
    SelectSeq(reqs, LAMBDA ts : t - ts <= windowMs)

FilterExpired(reqs, t, windowMs) ==
    SelectSeq(reqs, LAMBDA ts : t - ts < windowMs)

\* isAllowed(): the answer and the log it leaves
isAllowedNoRecord(reqs, t, maxRequests, windowMs) ==
    LET kept == FilterExpired(reqs, t, windowMs)
    IN  [allowed |-> Len(kept) < maxRequests, requests |-> kept]

isAllowed(reqs, t, maxRequests, windowMs) ==
    LET kept == FilterExpired(reqs, t, windowMs)
    IN  IF Len(kept) >= maxRequests
        THEN [allowed |-> FALSE, requests |-> kept]
        ELSE [allowed |-> TRUE, requests |-> Append(kept, t)]

\* getTimeUntilReset()
getTimeUntilReset(reqs, t, windowMs) ==
    IF Len(reqs) = 0 THEN 0
    ELSE LET resetTime == MinOf(Range(reqs)) + windowMs
         IN  IF resetTime - t > 0 THEN resetTime - t ELSE 0

NoRlCall == [called |-> FALSE, allowed |-> FALSE, before |-> <<>>, at |-> 0,
             everRefused |-> FALSE]

\* The clock advances (Date.now() between two calls).
Tick ==
    /\ now < MaxTime
    /\ now' = now + 1
    /\ UNCHANGED <<requests, rlLast, admitted>>

\* One isAllowed() call on the instance.
IsAllowedCall ==
    LET r == isAllowed(requests, now, RLMax, RLWindow)
    IN  /\ requests' = r.requests
        /\ rlLast' = [called |-> TRUE, allowed |-> r.allowed,
                      before |-> requests, at |-> now,
                      everRefused |-> rlLast.everRefused \/ ~r.allowed]
        /\ admitted' = IF r.allowed THEN Append(admitted, now) ELSE admitted
        /\ UNCHANGED now


-----------------------------------------------------------------------------
(* githubService.ts: the commit pipeline *)

\* The largest batch handed to commitFiles.
MaxFiles == 2

\* githubRateLimiter = new RateLimiter(60, 60 * 1000), scaled to the batch:
\* a full commit of MaxFiles files (MaxFiles + 4 requests) just fits.
GithubMaxRequests == MaxFiles + 4
GithubWindowMs == RLWindow

Null == [null |-> TRUE]

\* A commit message is a string of characters; trim() strips the blanks at
\* both ends.
RECURSIVE TrimLeft(_)
TrimLeft(s) == IF s # <<>> /\ Head(s) = " " THEN TrimLeft(Tail(s)) ELSE s

RECURSIVE TrimRight(_)
TrimRight(s) ==
    IF s # <<>> /\ s[Len(s)] = " " THEN TrimRight(SubSeq(s, 1, Len(s) - 1)) ELSE s

Trim(s) == TrimRight(TrimLeft(s))

Messages == {<<>>, <<" ">>, <<"m">>, <<" ", "m", " ">>}

\* GithubUser values, null included
Authors == {Null} \cup [name : {"", "n"}, email : {"", "e"}]

\* The files a batch is drawn from.  The content "\uD800" (a lone surrogate)
\* is text that encodeURIComponent rejects; "c2" is a text of exactly
\* 1024 * 1024 bytes and "big" a text of one byte more.
BatchFiles ==
    { [path |-> "a.ts", content |-> "c1", isDirty |-> TRUE],
      [path |-> "b.ts", content |-> "c2", isDirty |-> TRUE],
      [path |-> "c.ts", content |-> "\\uD800", isDirty |-> TRUE],
      [path |-> "d.ts", content |-> "big", isDirty |-> TRUE] }

\* Every sequence of at most n distinct members of S
SeqsNoRepeat(S, n) ==
    {q \in UNION {[1..k -> S] : k \in 0..n} :
        \A i, j \in 1..Len(q) : i # j => q[i] # q[j]}

Batches == SeqsNoRepeat(BatchFiles, MaxFiles)

\* utf8_to_b64: btoa(unescape(encodeURIComponent(str))), or a throw
Encodable(content) == content # "\\uD800"
utf8_to_b64(content) == <<"b64", content>>

\* What the remote answers to a request: 0 stands for a rejected fetch()
\* (no response at all), 200 for any 2xx.
Statuses == {0, 200, 401, 403, 404, 422, 429, 500}
ErrorStatuses == Statuses \ {200}

\* githubFetch's classification of a failed request, as it leaves
\* withErrorHandling (a rejected fetch is classified by ErrorHandler.handle:
\* its message holds "fetch").
githubFetchError(status) ==
    CASE status = 0 -> "NETWORK"
      [] status = 401 -> "AUTH"
      [] status = 403 -> "AUTH"
      [] status = 429 -> "RATE_LIMIT"
      [] OTHER -> "GITHUB"

\* The object store of the remote: SHAs are content addresses.
BaseSha == "abc123"
OtherSha == "fff999"
TreeOfCommit(sha) == IF sha = BaseSha THEN "tree-abc123" ELSE "tree-fff999"
BlobSha(b64) == <<"blob", b64>>
TreeSha(baseTree, entries) == <<"tree", baseTree, entries>>
CommitSha(tree, parents) == <<"commit", tree, parents>>

\* Requests as githubFetch sends them
GetCommitReq(a) ==
    [kind |-> "GET commit", owner |-> a.owner, repo |-> a.repo,
     sha |-> a.baseCommitSha]
PostBlobReq(a, file) ==
    [kind |-> "POST blob", owner |-> a.owner, repo |-> a.repo,
     content |-> utf8_to_b64(file.content), encoding |-> "base64"]
TreeEntries(files, blobs) ==
    [i \in 1..Len(files) |->
        [path |-> files[i].path, mode |-> "100644", type |-> "blob",
         sha |-> blobs[i]]]
PostTreeReqBaseCommit(a, baseTreeSha, blobs) ==
    [kind |-> "POST tree", owner |-> a.owner, repo |-> a.repo,
     base_tree |-> a.baseCommitSha, tree |-> TreeEntries(a.files, blobs)]
PostTreeReq(a, baseTreeSha, blobs) ==
    [kind |-> "POST tree", owner |-> a.owner, repo |-> a.repo,
     base_tree |-> baseTreeSha, tree |-> TreeEntries(a.files, blobs)]
PostCommitReq(a, treeSha) ==
    [kind |-> "POST commit", owner |-> a.owner, repo |-> a.repo,
     message |-> Trim(a.message), tree |-> treeSha,
     parents |-> <<a.baseCommitSha>>, author |-> a.author,
     committer |-> a.author]
PatchRefReq(a, sha) ==
    [kind |-> "PATCH ref", owner |-> a.owner, repo |-> a.repo,
     branch |-> a.branch, sha |-> sha]

NoResult == [status |-> "none", sha |-> Null, error |-> "", stage |-> ""]
NoLocals == [baseTreeSha |-> Null, blobs |-> <<>>, newTree |-> Null,
             newCommit |-> Null, failedAt |-> "", arrived |-> <<>>,
             refStatus |-> 0, pushed |-> FALSE]
NoArgs == [entry |-> "", owner |-> "", repo |-> "", branch |-> "",
           baseCommitSha |-> "", files |-> <<>>, message |-> <<>>,
           tokenValid |-> FALSE, author |-> Null]


\* new Blob([content]).size, and the ceiling the hook applies (1024 * 1024)
MaxFileBytes == 1048576
ByteSize(content) ==
    CASE content = "\\uD800" -> 3
      [] content = "c2" -> MaxFileBytes
      [] content = "big" -> MaxFileBytes + 1
      [] OTHER -> 2

\* commitFilesInternal, the three guards ahead of the first request
ServiceValidation(a) ==
    IF \/ a.owner = "" \/ a.repo = "" \/ a.branch = "" \/ a.baseCommitSha = ""
       \/ a.message = <<>> \/ a.author = Null
    THEN "All commit parameters are required"
    ELSE IF Len(a.files) = 0 THEN "No files to commit"
    ELSE IF Len(Trim(a.message)) = 0 THEN "Commit message cannot be empty"
    ELSE ""

\* useGitHubOperations.commitFiles, the guards ahead of the service call
HookValidFiles(files) ==
    SelectSeq(files, LAMBDA f : ~(ByteSize(f.content) > MaxFileBytes))

HookValidation(a) ==
    IF a.owner = "" \/ a.repo = "" \/ a.branch = "" \/ a.baseCommitSha = ""
    THEN "Repository information is incomplete"
    ELSE IF Len(a.files) = 0 THEN "No files to commit"
    ELSE IF Trim(a.message) = <<>> THEN "Commit message is required"
    ELSE IF a.author = Null \/ a.author.name = "" \/ a.author.email = ""
    THEN "Author information is required"
    ELSE IF ~a.tokenValid THEN "Invalid token"
    ELSE IF Len(HookValidFiles(a.files)) = 0
    THEN "No valid files to commit (all files may be too large)"
    ELSE ""

\* Promise.all over the blob promises: rejected with the first rejection,
\* fulfilled once every promise is.
PromiseAllSettled(st) ==
    IF \E i \in DOMAIN st : st[i] = "pending" THEN "pending" ELSE "fulfilled"

PromiseAll(st) ==
    IF \E i \in DOMAIN st : st[i] \in {"refused", "err"} THEN "rejected"
    ELSE IF \A i \in DOMAIN st : st[i] = "ok" THEN "fulfilled"
    ELSE "pending"

\* Promise.all resolves with the values in the order of the promises: the
\* answer to the i-th request becomes blobs[i], whenever it arrives.
resolvedOutOfPlace(blobs, i, sha) == [blobs EXCEPT ![Len(blobs) + 1 - i] = sha]

resolvedAt(blobs, i, sha) == [blobs EXCEPT ![i] = sha]

\* filesToCommit.map(file => githubFetch(...)): every call runs up to its
\* first await before map moves on, so the limiter is consulted file by
\* file, in order; utf8_to_b64 throwing ends the map at that file.
RECURSIVE BlobFanOut(_, _, _, _)
BlobFanOut(a, i, reqs, t) ==
    IF i > Len(a.files)
    THEN [requests |-> reqs, st |-> <<>>, sent |-> <<>>, threw |-> FALSE]
    ELSE IF ~Encodable(a.files[i].content)
    THEN [requests |-> reqs,
          st |-> <<"threw">> \o [k \in 1..(Len(a.files) - i) |-> "none"],
          sent |-> <<>>, threw |-> TRUE]
    ELSE LET r == isAllowed(reqs, t, GithubMaxRequests, GithubWindowMs)
             rest == BlobFanOut(a, i + 1, r.requests, t)
         IN  [requests |-> rest.requests,
              st |-> <<IF r.allowed THEN "pending" ELSE "refused">> \o rest.st,
              sent |-> (IF r.allowed THEN <<PostBlobReq(a, a.files[i])>>
                        ELSE <<>>) \o rest.sent,
              threw |-> rest.threw]

\* The call ends in an error: the service throws it, the hook logs it and
\* returns null.
Failed(entry, stage, error) ==
    [status |-> IF entry = "hook" /\ stage # "validation"
                THEN "null" ELSE "threw",
     sha |-> Null, error |-> error, stage |-> stage]

\* One githubFetch up to its await: refused by the limiter, or sent.
Fetch(req, stage, nextpc) ==
    LET r == isAllowed(requests, now, GithubMaxRequests, GithubWindowMs)
    IN  /\ requests' = r.requests
        /\ IF r.allowed
           THEN /\ calls' = Append(calls, req)
                /\ cpc' = nextpc
                /\ cresult' = cresult
           ELSE /\ calls' = calls
                /\ cpc' = "failed"
                /\ cresult' = Failed(cargs.entry, stage, "RATE_LIMIT")


\* What the service receives: the hook hands on the files that passed its
\* size filter and the trimmed message.
SvcArgs(a) ==
    IF a.entry = "hook"
    THEN [a EXCEPT !.files = HookValidFiles(a.files), !.message = Trim(a.message)]
    ELSE a

CommitArgs ==
    [entry : {"service", "hook"}, owner : {"", "o"}, repo : {"", "r"},
     branch : {"", "main"}, baseCommitSha : {"", BaseSha}, files : Batches,
     message : Messages, tokenValid : BOOLEAN, author : Authors]

\* Arguments with at most one of them off the valid ones: enough for every
\* guard to be the one that fires.
GoodArgs(a) ==
    <<a.owner # "", a.repo # "", a.branch # "", a.baseCommitSha # "",
      a.message = <<"m">>, a.tokenValid, a.author = [name |-> "n", email |-> "e"]>>

CommitInputs ==
    {a \in CommitArgs :
        Cardinality({i \in 1..7 : ~GoodArgs(a)[i]}) <= 1}

\* commitFiles(owner, repo, branch, baseCommitSha, files, message, token,
\* author) up to its first await.
CommitFiles(a) ==
    /\ cpc = "idle"
    /\ cargs' = a
    /\ reqAtCall' = requests
    /\ UNCHANGED <<blobSt, cloc, remoteHead, now, rlLast, admitted>>
    /\ IF a.entry = "hook" /\ HookValidation(a) # ""
       THEN /\ cpc' = "failed"
            /\ cresult' = Failed(a.entry, "validation", "VALIDATION")
            /\ UNCHANGED <<calls, requests>>
       ELSE IF ServiceValidation(SvcArgs(a)) # ""
       THEN /\ cpc' = "failed"
            /\ cresult' = Failed(a.entry,
                                 IF a.entry = "hook" THEN "service-validation"
                                 ELSE "validation", "VALIDATION")
            /\ UNCHANGED <<calls, requests>>
       ELSE LET r == isAllowed(requests, now, GithubMaxRequests, GithubWindowMs)
            IN  /\ requests' = r.requests
                /\ IF r.allowed
                   THEN /\ calls' = Append(calls, GetCommitReq(SvcArgs(a)))
                        /\ cpc' = "base"
                        /\ cresult' = cresult
                   ELSE /\ calls' = calls
                        /\ cpc' = "failed"
                        /\ cresult' = Failed(a.entry, "base", "RATE_LIMIT")

\* The answer to GET /git/commits/{baseCommitSha}; on success the blob
\* requests go out.
RespBaseCommit(status) ==
    /\ cpc = "base"
    /\ UNCHANGED <<cargs, remoteHead, reqAtCall, now, rlLast, admitted>>
    /\ IF status # 200
       THEN /\ cpc' = "failed"
            /\ cresult' = Failed(cargs.entry, "base", githubFetchError(status))
            /\ cloc' = [cloc EXCEPT !.failedAt = "base"]
            /\ UNCHANGED <<calls, blobSt, requests>>
       ELSE LET a == SvcArgs(cargs)
                fan == BlobFanOut(a, 1, requests, now)
            IN  /\ requests' = fan.requests
                /\ calls' = calls \o fan.sent
                /\ blobSt' = fan.st
                /\ cloc' = [cloc EXCEPT
                              !.baseTreeSha = TreeOfCommit(a.baseCommitSha),
                              !.blobs = [i \in 1..Len(a.files) |-> Null]]
                /\ IF fan.threw
                   THEN /\ cpc' = "failed"
                        /\ cresult' = Failed(cargs.entry, "blobs", "GITHUB")
                   ELSE IF PromiseAll(fan.st) = "rejected"
                   THEN /\ cpc' = "failed"
                        /\ cresult' = Failed(cargs.entry, "blobs", "RATE_LIMIT")
                   ELSE /\ cpc' = "blobs"
                        /\ cresult' = cresult

\* The answer to one POST /git/blobs, in any order; the last success sends
\* the tree request, the first failure rejects the call.  Answers that
\* arrive after the call was rejected change nothing.
RespBlob(i, status) ==
    /\ i \in DOMAIN blobSt
    /\ blobSt[i] = "pending"
    /\ UNCHANGED <<cargs, remoteHead, reqAtCall, now, rlLast, admitted>>
    /\ blobSt' = [blobSt EXCEPT ![i] = IF status = 200 THEN "ok" ELSE "err"]
    /\ LET a == SvcArgs(cargs)
           blobs == IF status = 200
                    THEN resolvedAt(cloc.blobs, i,
                                    BlobSha(utf8_to_b64(a.files[i].content)))
                    ELSE cloc.blobs
       IN  /\ cloc' = [cloc EXCEPT !.blobs = blobs, !.arrived = Append(@, i)]
           /\ IF cpc # "blobs"
              THEN UNCHANGED <<cpc, cresult, calls, requests>>
              ELSE IF PromiseAll(blobSt') = "rejected"
              THEN /\ cpc' = "failed"
                   /\ cresult' = Failed(cargs.entry, "blobs",
                                        githubFetchError(status))
                   /\ UNCHANGED <<calls, requests>>
              ELSE IF PromiseAll(blobSt') = "fulfilled"
              THEN Fetch(PostTreeReq(a, cloc.baseTreeSha, blobs), "tree", "tree")
              ELSE UNCHANGED <<cpc, cresult, calls, requests>>

\* The answer to POST /git/trees
RespTree(status) ==
    /\ cpc = "tree"
    /\ UNCHANGED <<cargs, blobSt, remoteHead, reqAtCall, now, rlLast, admitted>>
    /\ IF status # 200
       THEN /\ cpc' = "failed"
            /\ cresult' = Failed(cargs.entry, "tree", githubFetchError(status))
            /\ cloc' = [cloc EXCEPT !.failedAt = "tree"]
            /\ UNCHANGED <<calls, requests>>
       ELSE LET req == calls[Len(calls)]
                sha == TreeSha(req.base_tree, req.tree)
            IN  /\ cloc' = [cloc EXCEPT !.newTree = sha]
                /\ Fetch(PostCommitReq(SvcArgs(cargs), sha), "commit", "commit")

\* The answer to POST /git/commits
RespCommit(status) ==
    /\ cpc = "commit"
    /\ UNCHANGED <<cargs, blobSt, remoteHead, reqAtCall, now, rlLast, admitted>>
    /\ IF status # 200
       THEN /\ cpc' = "failed"
            /\ cresult' = Failed(cargs.entry, "commit", githubFetchError(status))
            /\ cloc' = [cloc EXCEPT !.failedAt = "commit"]
            /\ UNCHANGED <<calls, requests>>
       ELSE LET req == calls[Len(calls)]
                sha == CommitSha(req.tree, req.parents)
            IN  /\ cloc' = [cloc EXCEPT !.newCommit = sha]
                /\ Fetch(PatchRefReq(SvcArgs(cargs), sha), "ref", "ref")

\* The remote takes a ref update only as a fast-forward: the branch must
\* still point at a parent of the new commit.
ForcedUpdate(head, sha) == TRUE

FastForward(head, sha) == head \in Range(sha[3])

\* The answer to PATCH /git/refs/heads/{branch}
RespRef(status) ==
    /\ cpc = "ref"
    /\ status = 200 => FastForward(remoteHead, calls[Len(calls)].sha)
    /\ UNCHANGED <<cargs, blobSt, calls, requests, reqAtCall, now, rlLast,
                   admitted>>
    /\ IF status # 200
       THEN /\ cpc' = "failed"
            /\ cresult' = Failed(cargs.entry, "ref", githubFetchError(status))
            /\ cloc' = [cloc EXCEPT !.failedAt = "ref", !.refStatus = status]
            /\ UNCHANGED remoteHead
       ELSE /\ remoteHead' = calls[Len(calls)].sha
            /\ cpc' = "done"
            /\ cresult' = [status |-> "ok", sha |-> cloc.newCommit,
                           error |-> "", stage |-> ""]
            /\ UNCHANGED cloc

\* Someone else pushes to the branch.
OtherPush ==
    /\ remoteHead = BaseSha
    /\ cpc \notin {"idle", "done", "failed"}
    /\ remoteHead' = OtherSha
    /\ cloc' = [cloc EXCEPT !.pushed = TRUE]
    /\ UNCHANGED <<cpc, cargs, calls, blobSt, cresult, reqAtCall, rlVars>>

-----------------------------------------------------------------------------
(* Plain objects used as maps (Projects, Record<string, ProjectSourceInfo>) *)

\* An object is the sequence of its own properties in Object.keys order:
\* the keys that are array indices in ascending numeric order, then the
\* other keys in the order in which they were first set.

\* The value of a key that is an array index ("7"), -1 for any other key
ArrayIndex(k) == IF k = "7" THEN 7 ELSE -1

ObjKeys(o) == [i \in 1..Len(o) |-> o[i].key]

ObjHas(o, k) == \E i \in 1..Len(o) : o[i].key = k

ObjGet(o, k) == o[CHOOSE i \in 1..Len(o) : o[i].key = k].val

\* { ...o, [k]: v }
ObjSet(o, k, v) ==
    IF ObjHas(o, k)
    THEN [i \in 1..Len(o) |-> IF o[i].key = k THEN [key |-> k, val |-> v] ELSE o[i]]
    ELSE IF ArrayIndex(k) < 0 THEN Append(o, [key |-> k, val |-> v])
    ELSE LET n == Cardinality({i \in 1..Len(o) :
                                  /\ ArrayIndex(o[i].key) >= 0
                                  /\ ArrayIndex(o[i].key) < ArrayIndex(k)})
         IN  SubSeq(o, 1, n) \o <<[key |-> k, val |-> v]>>
                 \o SubSeq(o, n + 1, Len(o))

\* const { [k]: deleted, ...rest } = o
ObjDelete(o, k) == SelectSeq(o, LAMBDA e : e.key # k)

-----------------------------------------------------------------------------
(* Project names and validateProjectName (utils/validation.ts) *)

NameChars(name) ==
    CASE name = "Welcome Project" ->
            <<"W", "e", "l", "c", "o", "m", "e", " ",
              "P", "r", "o", "j", "e", "c", "t">>
      [] name = "demo" -> <<"d", "e", "m", "o">>
      [] name = "o/r" -> <<"o", "/", "r">>
      [] name = " "   -> <<" ">>
      [] name = "7"   -> <<"7">>
      [] OTHER        -> <<>>

ControlChars == {"\\x00", "\\x07", "\\x7F"}

\* input.replace(/[\x00-\x08\x0B\x0C\x0E-\x1F\x7F]/g, '')
sanitizeString(chars) == SelectSeq(chars, LAMBDA c : c \notin ControlChars)

\* /^[a-zA-Z0-9\-_.\s]+$/
NameCharOk(c) ==
    c \in {"W", "P", "c", "d", "e", "j", "l", "m", "o", "r", "t", "7",
           "-", "_", ".", " "}

MaxNameLen == 50

validateProjectName(name) ==
    LET sanitized == sanitizeString(Trim(NameChars(name)))
    IN  /\ name # ""
        /\ Len(sanitized) # 0
        /\ Len(sanitized) <= MaxNameLen
        /\ \A i \in 1..Len(sanitized) : NameCharOk(sanitized[i])

\* The names of the projects the hook is called on, and the names it is
\* asked to create
Names == {"Welcome Project", "demo"}
NameInputs == Names \cup {"o/r"}

-----------------------------------------------------------------------------
(* useAppState (hooks/useAppState.ts): the project store *)

Paths == {"prompt.txt", "README.md"}
Contents == {"c1", "c2"}

\* The longest file list addFile is called on, and the number of store
\* operations in one run
MaxProjectFiles == 3
MaxOps == 4

NewFile(path, content, isDirty) ==
    [path |-> path, content |-> content, isDirty |-> isDirty]

initialProject ==
    <<NewFile("prompt.txt", "c1", FALSE), NewFile("README.md", "c1", FALSE)>>

MemorySource == [type |-> "memory"]
LocalSource  == [type |-> "local", handle |-> "dir"]
GithubSource(sha) ==
    [type |-> "github", owner |-> "o", repo |-> "r", branch |-> "main",
     baseCommitSha |-> sha]

\* The file lists and descriptors the hook's callers pass in
FileListInputs == {<<>>, <<NewFile("README.md", "c2", FALSE)>>}
SourceInputs == {LocalSource, GithubSource(BaseSha)}

\* filePaths?: string[]
FilePathsInputs ==
    {[given |-> FALSE, paths |-> {}]} \cup
    {[given |-> TRUE, paths |-> {"README.md"}]}

NoOp ==
    [op |-> "none", name |-> "", path |-> "", content |-> "",
     threw |-> FALSE, before |-> <<>>, info |-> <<>>]

Op(op, name, path, content) ==
    [op |-> op, name |-> name, path |-> path, content |-> content,
     threw |-> FALSE, before |-> <<>>, info |-> <<>>]

Threw(op, name, path, content) ==
    [Op(op, name, path, content) EXCEPT !.threw = TRUE]

\* Per project name and path: the content the store last took as stored at
\* the project's source (installed clean, or marked saved), "none" if none.
NothingPersisted == [n \in NameInputs |-> [p \in Paths |-> "none"]]

\* The positions of a file list that hold the given path
At(files, path) == {i \in 1..Len(files) : files[i].path = path}

CleanContents(files) ==
    [p \in Paths |->
        LET at == {i \in 1..Len(files) : files[i].path = p /\ ~files[i].isDirty}
        IN  IF at = {} THEN "none"
            ELSE files[CHOOSE i \in at : \A j \in at : j <= i].content]

\* source?.type !== 'local'
isDirtyFor(name) ==
    ~(ObjHas(projectSources, name) /\ ObjGet(projectSources, name).type = "local")

\* files.map(file => file.path === path ? { ...file, content, isDirty } : file)
mapUpdateFileAll(files, path, content, isDirty) ==
    [i \in 1..Len(files) |->
        IF files[i].path = path
        THEN [files[i] EXCEPT !.content = content, !.isDirty = isDirty]
        ELSE [files[i] EXCEPT !.isDirty = isDirty]]

mapUpdateFile(files, path, content, isDirty) ==
    [i \in 1..Len(files) |->
        IF files[i].path = path
        THEN [files[i] EXCEPT !.content = content, !.isDirty = isDirty]
        ELSE files[i]]

\* files.map(file => !filePaths || filePaths.includes(file.path)
\*                       ? { ...file, isDirty: false } : file)
mapMarkSaved(files, filePaths) ==
    [i \in 1..Len(files) |->
        IF ~filePaths.given \/ files[i].path \in filePaths.paths
        THEN [files[i] EXCEPT !.isDirty = FALSE]
        ELSE files[i]]

createProject(name, files) ==
    IF ~validateProjectName(name) \/ ObjHas(projects, name)
    THEN /\ lastOp' = Threw("createProject", name, "", "")
         /\ UNCHANGED <<projects, projectSources, activeProjectName, persisted>>
    ELSE LET newFiles == IF Len(files) > 0 THEN files ELSE initialProject
         IN  /\ projects' = ObjSet(projects, name, newFiles)
             /\ projectSources' = ObjSet(projectSources, name, MemorySource)
             /\ activeProjectName' = name
             /\ persisted' = [persisted EXCEPT ![name] = CleanContents(newFiles)]
             /\ lastOp' = Op("createProject", name, "", "")

deleteProject(name) ==
    IF ~ObjHas(projects, name)
    THEN /\ lastOp' = Threw("deleteProject", name, "", "")
         /\ UNCHANGED <<projects, projectSources, activeProjectName, persisted>>
    ELSE /\ projects' = ObjDelete(projects, name)
         /\ projectSources' = ObjDelete(projectSources, name)
         /\ activeProjectName' =
                IF activeProjectName = name
                THEN LET remainingProjects == ObjKeys(ObjDelete(projects, name))
                     IN  IF Len(remainingProjects) > 0
                         THEN remainingProjects[1] ELSE ""
                ELSE activeProjectName
         /\ persisted' = [persisted EXCEPT ![name] = [p \in Paths |-> "none"]]
         /\ lastOp' = Op("deleteProject", name, "", "")

updateProject(name, files) ==
    /\ projects' = ObjSet(projects, name, files)
    /\ persisted' = [persisted EXCEPT ![name] = CleanContents(files)]
    /\ lastOp' = Op("updateProject", name, "", "")
    /\ UNCHANGED <<projectSources, activeProjectName>>

updateProjectSource(name, source) ==
    /\ projectSources' = ObjSet(projectSources, name, source)
    /\ lastOp' = Op("updateProjectSource", name, "", "")
    /\ UNCHANGED <<projects, activeProjectName, persisted>>

switchToProject(name) ==
    IF ~ObjHas(projects, name)
    THEN /\ lastOp' = Threw("switchToProject", name, "", "")
         /\ UNCHANGED <<projects, projectSources, activeProjectName, persisted>>
    ELSE /\ activeProjectName' = name
         /\ lastOp' = Op("switchToProject", name, "", "")
         /\ UNCHANGED <<projects, projectSources, persisted>>

\* The file list of the active project
ActiveFiles ==
    IF ObjHas(projects, activeProjectName)
    THEN ObjGet(projects, activeProjectName) ELSE <<>>

updateFile(path, content) ==
    IF activeProjectName = ""
    THEN /\ lastOp' = Threw("updateFile", "", path, content)
         /\ UNCHANGED <<projects, projectSources, activeProjectName, persisted>>
    ELSE /\ ObjHas(projects, activeProjectName)
         /\ projects' = ObjSet(projects, activeProjectName,
                mapUpdateFile(ActiveFiles, path, content,
                              isDirtyFor(activeProjectName)))
         /\ lastOp' = [Op("updateFile", activeProjectName, path, content)
                          EXCEPT !.before = ActiveFiles]
         /\ UNCHANGED <<projectSources, activeProjectName, persisted>>

addFile(path, content) ==
    IF activeProjectName = ""
    THEN /\ lastOp' = Threw("addFile", "", path, content)
         /\ UNCHANGED <<projects, projectSources, activeProjectName, persisted>>
    ELSE /\ ObjHas(projects, activeProjectName)
         /\ Len(ActiveFiles) < MaxProjectFiles
         /\ projects' = ObjSet(projects, activeProjectName,
                Append(ActiveFiles,
                       NewFile(path, content, isDirtyFor(activeProjectName))))
         /\ lastOp' = Op("addFile", activeProjectName, path, content)
         /\ UNCHANGED <<projectSources, activeProjectName, persisted>>

deleteFile(path) ==
    IF activeProjectName = ""
    THEN /\ lastOp' = Threw("deleteFile", "", path, "")
         /\ UNCHANGED <<projects, projectSources, activeProjectName, persisted>>
    ELSE /\ ObjHas(projects, activeProjectName)
         /\ projects' = ObjSet(projects, activeProjectName,
                SelectSeq(ActiveFiles, LAMBDA file : file.path # path))
         /\ lastOp' = Op("deleteFile", activeProjectName, path, "")
         /\ UNCHANGED <<projectSources, activeProjectName, persisted>>

\* Called after the given paths were flushed or committed
markFilesSaved(filePaths) ==
    /\ activeProjectName # ""
    /\ ObjHas(projects, activeProjectName)
    /\ LET saved == mapMarkSaved(ActiveFiles, filePaths)
       IN  /\ projects' = ObjSet(projects, activeProjectName, saved)
           /\ persisted' = [persisted EXCEPT ![activeProjectName] =
                  [p \in Paths |->
                      IF (~filePaths.given \/ p \in filePaths.paths)
                         /\ CleanContents(saved)[p] # "none"
                      THEN CleanContents(saved)[p] ELSE @[p]]]
    /\ lastOp' = Op("markFilesSaved", activeProjectName, "", "")
    /\ UNCHANGED <<projectSources, activeProjectName>>

-----------------------------------------------------------------------------
(* App (App.tsx): the component's handlers and the calls they leave in flight *)

\* The calls in flight at once
MaxInFlight == 2

VerifiedSettings ==
    [githubToken |-> "tok", githubUser |-> [name |-> "n", email |-> "e"]]
\* githubToken is only tested for truthiness: "" stands for null
NoSettings == [githubToken |-> "", githubUser |-> Null]

\* What the user types into the dialogs
RepoPaths == {"o/r"}
GenerateNames == {"demo", "Welcome Project"}
CommitMessageInputs == {"m"}

\* What the services answer
RepoFiles ==
    <<NewFile("prompt.txt", "c1", FALSE), NewFile("README.md", "c1", FALSE)>>
GeneratedFiles == <<NewFile("README.md", "c1", FALSE)>>
ChangedFilesAnswers == {<<>>, <<NewFile("README.md", "c2", FALSE)>>}
AIOperations == {"REFACTOR"}
EditorInputs == {"c2"}

\* The SHA the hosting API gives the commit made on top of the given one
NewCommitSha(base) == IF base = BaseSha THEN "def456" ELSE OtherSha

\* What lastOp holds after a handler that settles no call
UiOp == Op("ui", "", "", "")

Dialog(title, ctx) == [title |-> title, ctx |-> ctx]

\* activeProjectFiles.find(f => f.path === activeFilePath) || null
activeFile ==
    IF At(ActiveFiles, activeFilePath) = {} THEN Null
    ELSE ActiveFiles[MinOf(At(ActiveFiles, activeFilePath))]

\* The effect that keeps activeFilePath on a file of the active project
SelectedPath(projs, name, path) ==
    LET files == IF name # "" /\ ObjHas(projs, name) THEN ObjGet(projs, name)
                 ELSE <<>>
    IN  IF At(files, path) # {} THEN path
        ELSE IF Len(files) > 0 THEN files[1].path ELSE ""

\* Every control outside the dialog is disabled while isLoading, and covered
\* while a dialog is open.
ControlsEnabled == modalConfig = Null /\ ~isLoading

ServiceFrame ==
    UNCHANGED <<rlVars, cpc, cargs, calls, blobSt, cloc, cresult, reqAtCall, nOps,
                extVars>>

AppFrame == ServiceFrame /\ UNCHANGED remoteHead

Without(s, i) == SelectSeqIdx(s, LAMBDA j : j # i)

\* The busy flag reset on the success path only
loadingLeftOnFailure(threw) == threw

\* finally { setIsLoading(false); }: the busy flag after a handler's try
\* block, whether it threw or not
finallyLoading(threw) == FALSE

handleFileSelect(path) ==
    /\ ControlsEnabled
    /\ At(ActiveFiles, path) # {}
    /\ activeFilePath' = path
    /\ lastOp' = UiOp
    /\ UNCHANGED <<projects, projectSources, activeProjectName, persisted,
                   isLoading, modalConfig, settings, inflight>>
    /\ AppFrame

handleProjectSelect(name) ==
    /\ ControlsEnabled
    /\ ObjHas(projects, name)
    /\ activeProjectName' = name
    /\ activeFilePath' = SelectedPath(projects, name, activeFilePath)
    /\ lastOp' = UiOp
    /\ UNCHANGED <<projects, projectSources, persisted,
                   isLoading, modalConfig, settings, inflight>>
    /\ AppFrame

handleEditorChange(newContent) ==
    /\ ControlsEnabled
    /\ activeFile # Null
    /\ activeProjectName # ""
    /\ projects' = ObjSet(projects, activeProjectName,
            mapUpdateFile(ActiveFiles, activeFilePath, newContent, TRUE))
    /\ lastOp' = UiOp
    /\ UNCHANGED <<projectSources, activeProjectName, persisted, activeFilePath,
                   isLoading, modalConfig, settings, inflight>>
    /\ AppFrame

handleImportFromGithub ==
    /\ ControlsEnabled
    /\ modalConfig' =
          IF settings.githubToken = ""
          THEN Dialog("GitHub Token Missing", <<>>)
          ELSE Dialog("Import from GitHub",
                      [projects |-> Range(ObjKeys(projects)),
                       token |-> settings.githubToken])
    /\ lastOp' = UiOp
    /\ UNCHANGED <<projects, projectSources, activeProjectName, persisted,
                   activeFilePath, isLoading, settings, inflight>>
    /\ AppFrame

\* onConfirm of the import dialog, up to the await
ImportConfirm(repoPath) ==
    /\ modalConfig # Null
    /\ modalConfig.title = "Import from GitHub"
    /\ Len(inflight) < MaxInFlight
    /\ modalConfig' = Null
    /\ isLoading' = TRUE
    /\ inflight' = Append(inflight,
          [kind |-> "import", name |-> repoPath,
           existed |-> repoPath \in modalConfig.ctx.projects])
    /\ lastOp' = UiOp
    /\ UNCHANGED <<projects, projectSources, activeProjectName, persisted,
                   activeFilePath, settings>>
    /\ AppFrame

\* setProjectData of the import
ImportProjectData(name, latestCommitSha) ==
    /\ projects' = ObjSet(projects, name, RepoFiles)
    /\ projectSources' = ObjSet(projectSources, name, GithubSource(latestCommitSha))
    /\ activeProjectName' = name
    /\ activeFilePath' = SelectedPath(projects', name, activeFilePath)
    /\ UNCHANGED persisted

\* getRepoContents settles: the rest of onConfirm
ImportDone(i, ok) ==
    /\ i \in 1..Len(inflight)
    /\ inflight[i].kind = "import"
    /\ inflight' = Without(inflight, i)
    /\ isLoading' = finallyLoading(~ok)
    /\ lastOp' = Op("ImportDone", inflight[i].name, "", "")
    /\ IF ~ok
       THEN UNCHANGED <<projects, projectSources, activeProjectName, persisted,
                        activeFilePath, modalConfig>>
       ELSE IF inflight[i].existed
       THEN /\ modalConfig' = Dialog("Overwrite Project",
                  [name |-> inflight[i].name, latestCommitSha |-> remoteHead])
            /\ UNCHANGED <<projects, projectSources, activeProjectName,
                           persisted, activeFilePath>>
       ELSE /\ ImportProjectData(inflight[i].name, remoteHead)
            /\ modalConfig' = Null
    /\ UNCHANGED <<settings, remoteHead>>
    /\ ServiceFrame

OverwriteConfirm ==
    /\ modalConfig # Null
    /\ modalConfig.title = "Overwrite Project"
    /\ ImportProjectData(modalConfig.ctx.name, modalConfig.ctx.latestCommitSha)
    /\ modalConfig' = Null
    /\ lastOp' = UiOp
    /\ UNCHANGED <<isLoading, settings, inflight, remoteHead>>
    /\ ServiceFrame

handleCommitToGithub ==
    /\ ControlsEnabled
    /\ activeProjectName # ""
    /\ ObjHas(projectSources, activeProjectName)
    /\ ObjGet(projectSources, activeProjectName).type = "github"
    /\ \E i \in 1..Len(ActiveFiles) : ActiveFiles[i].isDirty
    /\ modalConfig' =
          IF settings.githubUser = Null
             \/ settings.githubUser.name = "" \/ settings.githubUser.email = ""
          THEN Dialog("GitHub Identity Missing", <<>>)
          ELSE Dialog("Commit Changes",
                      [name |-> activeProjectName,
                       source |-> ObjGet(projectSources, activeProjectName),
                       files |-> ActiveFiles])
    /\ lastOp' = UiOp
    /\ UNCHANGED <<projects, projectSources, activeProjectName, persisted,
                   activeFilePath, isLoading, settings, inflight>>
    /\ AppFrame

\* onConfirm of the commit dialog, up to the await
CommitConfirm(commitMessage) ==
    /\ modalConfig # Null
    /\ modalConfig.title = "Commit Changes"
    /\ Len(inflight) < MaxInFlight
    /\ modalConfig' = Null
    /\ isLoading' = TRUE
    /\ inflight' = Append(inflight,
          [kind |-> "commit", name |-> modalConfig.ctx.name,
           source |-> modalConfig.ctx.source,
           filesToCommit |-> SelectSeq(modalConfig.ctx.files, LAMBDA f : f.isDirty)])
    /\ lastOp' = UiOp
    /\ UNCHANGED <<projects, projectSources, activeProjectName, persisted,
                   activeFilePath, settings>>
    /\ AppFrame

\* githubService.commitFiles settles: the rest of onConfirm
CommitDone(i, ok) ==
    /\ i \in 1..Len(inflight)
    /\ inflight[i].kind = "commit"
    /\ inflight' = Without(inflight, i)
    /\ isLoading' = finallyLoading(~ok)
    /\ IF ~ok
       THEN /\ lastOp' = [Threw("CommitDone", inflight[i].name, "", "") EXCEPT
                             !.info = [source |-> inflight[i].source,
                                       filesToCommit |-> inflight[i].filesToCommit]]
            /\ UNCHANGED <<projects, projectSources, remoteHead>>
       ELSE LET name == inflight[i].name
                batch == inflight[i].filesToCommit
                newCommitSha == NewCommitSha(inflight[i].source.baseCommitSha)
            IN  /\ ObjHas(projects, name)
                /\ remoteHead = inflight[i].source.baseCommitSha
                /\ remoteHead' = newCommitSha
                /\ projectSources' = ObjSet(projectSources, name,
                      [inflight[i].source EXCEPT !.baseCommitSha = newCommitSha])
                /\ projects' = ObjSet(projects, name,
                      [k \in 1..Len(ObjGet(projects, name)) |->
                          [ObjGet(projects, name)[k] EXCEPT !.isDirty = FALSE]])
                /\ lastOp' = [Op("CommitDone", name, "", "") EXCEPT
                      !.before = ObjGet(projects, name),
                      !.info = [filesToCommit |-> batch, sha |-> newCommitSha,
                                source |-> ObjGet(projectSources, name)]]
    /\ UNCHANGED <<activeProjectName, activeFilePath, modalConfig, settings,
                   persisted>>
    /\ ServiceFrame

handleRunAI(operation) ==
    /\ ControlsEnabled
    /\ IF operation = "GENERATE"
       THEN /\ modalConfig' = Dialog("Generate New Project",
                                     [projects |-> Range(ObjKeys(projects))])
            /\ UNCHANGED <<isLoading, inflight>>
       ELSE /\ activeProjectName # ""
            /\ Len(inflight) < MaxInFlight
            /\ isLoading' = TRUE
            /\ inflight' = Append(inflight,
                  [kind |-> "ai", operation |-> operation,
                   name |-> activeProjectName,
                   activeProjectFiles |-> ActiveFiles,
                   local |-> ~isDirtyFor(activeProjectName)])
            /\ UNCHANGED modalConfig
    /\ lastOp' = UiOp
    /\ UNCHANGED <<projects, projectSources, activeProjectName, persisted,
                   activeFilePath, settings>>
    /\ AppFrame

\* onConfirm of the generate dialog: the dialog stays open until the
\* generation settles.
GenerateConfirm(projectName) ==
    /\ modalConfig # Null
    /\ modalConfig.title = "Generate New Project"
    /\ IF projectName \in modalConfig.ctx.projects
       THEN UNCHANGED <<isLoading, inflight>>
       ELSE /\ Len(inflight) < MaxInFlight
            /\ isLoading' = TRUE
            /\ inflight' = Append(inflight,
                                  [kind |-> "generate", name |-> projectName])
    /\ lastOp' = UiOp
    /\ UNCHANGED <<projects, projectSources, activeProjectName, persisted,
                   activeFilePath, modalConfig, settings>>
    /\ AppFrame

\* startAIGeneration after the await
GenerateDone(i, ok) ==
    /\ i \in 1..Len(inflight)
    /\ inflight[i].kind = "generate"
    /\ inflight' = Without(inflight, i)
    /\ isLoading' = finallyLoading(~ok)
    /\ modalConfig' = Null
    /\ lastOp' = Op("GenerateDone", inflight[i].name, "", "")
    /\ IF ok
       THEN /\ projects' = ObjSet(projects, inflight[i].name, GeneratedFiles)
            /\ projectSources' = ObjSet(projectSources, inflight[i].name, MemorySource)
            /\ activeProjectName' = inflight[i].name
            /\ activeFilePath' =
                  SelectedPath(projects', inflight[i].name, activeFilePath)
       ELSE UNCHANGED <<projects, projectSources, activeProjectName,
                        activeFilePath>>
    /\ UNCHANGED <<persisted, settings>>
    /\ AppFrame

\* new Map(files.map(f => [f.path, f])) and then set(f.path, f) for each
\* changed file; Array.from(map.values())
MapOf(files) ==
    SelectSeqIdx([i \in 1..Len(files) |->
                     files[CHOOSE j \in At(files, files[i].path) :
                              \A k \in At(files, files[i].path) : k <= j]],
                 LAMBDA i : i = MinOf(At(files, files[i].path)))

MapSet(files, f) ==
    IF At(files, f.path) = {} THEN Append(files, f)
    ELSE [i \in 1..Len(files) |-> IF files[i].path = f.path THEN f ELSE files[i]]

RECURSIVE MapSetAll(_, _)
MapSetAll(files, changed) ==
    IF changed = <<>> THEN files
    ELSE MapSetAll(MapSet(files, Head(changed)), Tail(changed))

\* runAIAssistant settles: the rest of handleRunAI for REFACTOR, DEBUG, EXPLAIN
AiDone(i, ok, changedFiles) ==
    /\ i \in 1..Len(inflight)
    /\ inflight[i].kind = "ai"
    /\ inflight' = Without(inflight, i)
    /\ isLoading' = finallyLoading(~ok)
    /\ IF ~ok \/ inflight[i].operation = "EXPLAIN" \/ Len(changedFiles) = 0
       THEN /\ UNCHANGED projects
            /\ lastOp' = Op("AiDone", inflight[i].name, "", "")
       ELSE LET savedFiles ==
                    [k \in 1..Len(changedFiles) |->
                        [changedFiles[k] EXCEPT !.isDirty = ~inflight[i].local]]
            IN  /\ projects' = ObjSet(projects, inflight[i].name,
                      MapSetAll(MapOf(inflight[i].activeProjectFiles), savedFiles))
                /\ lastOp' = [Op("AiDone", inflight[i].name, "", "") EXCEPT
                      !.before = IF ObjHas(projects, inflight[i].name)
                                 THEN ObjGet(projects, inflight[i].name)
                                 ELSE <<>>,
                      !.info = [merged |-> TRUE, savedFiles |-> savedFiles]]
    /\ activeFilePath' = SelectedPath(projects', activeProjectName, activeFilePath)
    /\ UNCHANGED <<projectSources, activeProjectName, persisted, modalConfig,
                   settings>>
    /\ AppFrame

\* handleSaveActiveFile up to the await
handleSaveActiveFile ==
    /\ ControlsEnabled
    /\ IF activeProjectName = "" \/ activeFile = Null
          \/ ~ObjHas(projectSources, activeProjectName)
       THEN UNCHANGED <<isLoading, inflight>>
       ELSE IF ~activeFile.isDirty
               \/ ObjGet(projectSources, activeProjectName).type # "local"
       THEN UNCHANGED <<isLoading, inflight>>
       ELSE /\ Len(inflight) < MaxInFlight
            /\ isLoading' = TRUE
            /\ inflight' = Append(inflight,
                  [kind |-> "save", name |-> activeProjectName,
                   path |-> activeFile.path, content |-> activeFile.content])
    /\ lastOp' = UiOp
    /\ UNCHANGED <<projects, projectSources, activeProjectName, persisted,
                   activeFilePath, modalConfig, settings>>
    /\ AppFrame

\* saveFileToDisk settles: the rest of handleSaveActiveFile
SaveDone(i, ok) ==
    /\ i \in 1..Len(inflight)
    /\ inflight[i].kind = "save"
    /\ inflight' = Without(inflight, i)
    /\ isLoading' = finallyLoading(~ok)
    /\ IF ok /\ ObjHas(projects, inflight[i].name)
       THEN LET name == inflight[i].name
                path == inflight[i].path
            IN  /\ projects' = ObjSet(projects, name,
                      [k \in 1..Len(ObjGet(projects, name)) |->
                          IF ObjGet(projects, name)[k].path = path
                          THEN [ObjGet(projects, name)[k] EXCEPT !.isDirty = FALSE]
                          ELSE ObjGet(projects, name)[k]])
                /\ persisted' = [persisted EXCEPT ![name][path] =
                                                      inflight[i].content]
                /\ lastOp' = Op("SaveDone", name, path, inflight[i].content)
       ELSE /\ lastOp' = Threw("SaveDone", inflight[i].name, inflight[i].path,
                               inflight[i].content)
            /\ UNCHANGED <<projects, persisted>>
    /\ UNCHANGED <<projectSources, activeProjectName, activeFilePath,
                   modalConfig, settings>>
    /\ AppFrame

\* OK of an alert, Cancel of a prompt, the close button and the backdrop
CloseModal ==
    /\ modalConfig # Null
    /\ modalConfig' = Null
    /\ lastOp' = UiOp
    /\ UNCHANGED <<projects, projectSources, activeProjectName, persisted,
                   activeFilePath, isLoading, settings, inflight>>
    /\ AppFrame

-----------------------------------------------------------------------------
(* githubService.ts: githubFetch, verifyToken and getRepoContents *)

\* response.status: 204 is No Content, 200 stands for every other 2xx
ApiStatuses == Statuses \cup {204}

\* What response.json() gives for a failed response: a body that does not
\* parse, a body without a message, a body with one
NoBody == [parsed |-> TRUE, message |-> ""]
ErrorBodies ==
    {[parsed |-> FALSE, message |-> ""], NoBody,
     [parsed |-> TRUE, message |-> "Bad credentials"]}

Responses ==
    {[status |-> s, body |-> b] :
        s \in ApiStatuses \ {0, 200, 204}, b \in ErrorBodies}
    \cup {[status |-> s, body |-> NoBody] : s \in {0, 200, 204}}

\* response.statusText
statusText(status) ==
    CASE status = 401 -> "Unauthorized"
      [] status = 403 -> "Forbidden"
      [] status = 404 -> "Not Found"
      [] status = 422 -> "Unprocessable Entity"
      [] status = 429 -> "Too Many Requests"
      [] status = 500 -> "Internal Server Error"
      [] OTHER -> ""

\* A message: a fixed prefix and the text it is completed with
Msg(prefix, text) == [prefix |-> prefix, text |-> text]
NoMsg == Msg("", "")

\* The parsed body of a 2xx response, as opposed to null
ParsedBody == [null |-> FALSE]

\* githubFetch from the response on: what it throws or returns
githubFetchResponse(resp) ==
    LET errorData ==
            IF resp.body.parsed THEN Msg("", resp.body.message)
            ELSE Msg("GitHub API request failed: ", statusText(resp.status))
        Thrown(message) ==
            [threw |-> TRUE, type |-> githubFetchError(resp.status),
             message |-> message, value |-> Null]
    IN  CASE resp.status = 0 -> Thrown(Msg("", "Failed to fetch"))
          [] resp.status = 401 ->
                Thrown(IF errorData # NoMsg THEN errorData
                       ELSE Msg("", "GitHub authentication failed"))
          [] resp.status = 403 ->
                Thrown(Msg("", "GitHub access forbidden. Check your token permissions."))
          [] resp.status = 404 ->
                Thrown(Msg("", "Repository not found or access denied"))
          [] resp.status = 429 ->
                Thrown(Msg("", "Rate limit exceeded. Please wait before making more requests."))
          [] resp.status = 204 ->
                [threw |-> FALSE, type |-> "", message |-> NoMsg, value |-> Null]
          [] resp.status = 200 ->
                [threw |-> FALSE, type |-> "", message |-> NoMsg,
                 value |-> ParsedBody]
          [] OTHER ->
                Thrown(IF errorData # NoMsg THEN errorData
                       ELSE Msg("GitHub API error: ", statusText(resp.status)))

\* The tokens handed to verifyToken: their prefix and their length
TokenInputs ==
    {[prefix |-> "", length |-> 0], [prefix |-> "ghp_", length |-> 39],
     [prefix |-> "abc_", length |-> 40], [prefix |-> "ghp_", length |-> 40]}

\* validateGitHubToken
validateGitHubToken(token) ==
    /\ token.length # 0
    /\ token.prefix \in {"ghp_", "github_pat_"}
    /\ token.length >= 40

\* X-OAuth-Scopes of the /user response, and the /user/emails answers
ScopeInputs == {{}, {"repo"}}
EmailInputs ==
    {<<>>, <<[email |-> "e", primary |-> TRUE, verified |-> FALSE]>>,
     <<[email |-> "e", primary |-> TRUE, verified |-> TRUE]>>}

\* isTextFileByPath: the entries that are extensions and those that are
\* whole file names
TextExtensions ==
    {".txt", ".md", ".json", ".js", ".ts", ".tsx", ".jsx", ".html", ".css",
     ".scss", ".py", ".rb", ".java", ".c", ".cpp", ".h", ".cs", ".go", ".php",
     ".rs", ".swift", ".xml", ".yml", ".yaml", ".toml", ".env", ".gitignore",
     ".gitattributes", ".gitmodules", ".npmrc", ".yarnrc", ".pnpmrc",
     ".editorconfig", ".prettierrc", ".eslintrc", ".babelrc", ".nvmrc",
     ".tool-versions", ".prettierignore", ".npmignore", ".dockerignore",
     ".gitkeep", ".browserslistrc"}
TextFileNames ==
    {"dockerfile", "license", "readme", "changelog", "contributing",
     "code_of_conduct", "caddyfile", "makefile", "jest.config",
     "webpack.config", "tailwind.config", "vite.config", "next.config",
     "tsconfig", "jsconfig", "vite-env.d.ts", "package.json",
     "package-lock.json", "yarn.lock", "pnpm-lock.yaml"}

\* path.toLowerCase(): its last segment and the suffixes it ends with that
\* start at a dot
PathParts(path) ==
    CASE path = "README.md" ->
            [fileName |-> "readme.md", endings |-> {".md"}]
      [] path = "prompt.txt" ->
            [fileName |-> "prompt.txt", endings |-> {".txt"}]
      [] path = "Makefile" ->
            [fileName |-> "makefile", endings |-> {}]
      [] path = "logo.png" ->
            [fileName |-> "logo.png", endings |-> {".png"}]
      [] path = "bin/tool.exe" ->
            [fileName |-> "tool.exe", endings |-> {".exe"}]
      [] path = "src" ->
            [fileName |-> "src", endings |-> {}]
      [] OTHER -> [fileName |-> "", endings |-> {}]

isTextFileAny(path) == TRUE

isTextFileByPath(path) ==
    \/ PathParts(path).endings \cap TextExtensions # {}
    \/ PathParts(path).fileName \in TextFileNames

TreeItem(path, type, sha) == [path |-> path, type |-> type, sha |-> sha]

\* The recursive tree of the branch head: five blobs, three of them text,
\* and one directory
RepoTree ==
    <<TreeItem("README.md", "blob", "b1"), TreeItem("src", "tree", "t1"),
      TreeItem("logo.png", "blob", "b2"), TreeItem("prompt.txt", "blob", "b3"),
      TreeItem("bin/tool.exe", "blob", "b4"), TreeItem("Makefile", "blob", "b5")>>

TreeInputs == {<<>>, RepoTree}

\* The blob the hosting API holds under a SHA
BlobContent(sha) == IF sha = "b3" THEN "c2" ELSE "c1"
BlobData(sha) ==
    [encoding |-> "base64", content |-> utf8_to_b64(BlobContent(sha))]

\* b64_to_utf8: the text, or the marker left when decoding fails
b64_to_utf8(b64) ==
    IF Len(b64) = 2 /\ b64[1] = "b64" /\ Encodable(b64[2]) THEN b64[2]
    ELSE "DECODING_ERROR: File content could not be read."

\* treeData.tree.filter(item => item.type === 'blob' && isTextFileByPath(item.path))
TextBlobs(tree) ==
    SelectSeq(tree, LAMBDA item : item.type = "blob" /\ isTextFileByPath(item.path))

NoApiResult ==
    [status |-> "none", error |-> "", files |-> <<>>, latestCommitSha |-> "",
     branch |-> "", success |-> FALSE]

NoResponse ==
    [called |-> FALSE, resp |-> [status |-> 0, body |-> NoBody],
     out |-> [threw |-> FALSE, type |-> "", message |-> NoMsg, value |-> Null]]

ApiIdle ==
    [op |-> "none", entry |-> "", pc |-> "idle", owner |-> "", repo |-> "",
     tree |-> <<>>, items |-> <<>>, st |-> <<>>, latestCommitSha |-> "",
     result |-> NoApiResult, last |-> NoResponse, refused |-> 0,
     failedAt |-> "", settled |-> FALSE]

\* The call rejects with an error of the given type
ApiThrew(a, type) ==
    [a EXCEPT !.pc = "failed", !.failedAt = a.pc,
              !.result = [NoApiResult EXCEPT !.status = "threw", !.error = type]]

\* verifyToken resolves with { success, message }
ApiReturned(a, success) ==
    [a EXCEPT !.pc = "done",
              !.result = [NoApiResult EXCEPT !.status = "returned",
                                             !.success = success]]

\* What the last githubFetch got and made of it
Answered(a, resp) ==
    [a EXCEPT !.last = [called |-> TRUE, resp |-> resp,
                        out |-> githubFetchResponse(resp)]]

\* One githubFetch of the call up to its await: refused by the limiter and
\* thrown to onRefused, or sent.
ApiFetch(a, req, nextpc, onRefused) ==
    LET r == isAllowed(requests, now, GithubMaxRequests, GithubWindowMs)
    IN  /\ requests' = r.requests
        /\ IF r.allowed
           THEN /\ calls' = Append(calls, req)
                /\ admitted' = Append(admitted, now)
                /\ api' = [a EXCEPT !.pc = nextpc]
           ELSE /\ calls' = calls
                /\ admitted' = admitted
                /\ api' = [onRefused EXCEPT !.refused = @ + 1]

ApiFrame ==
    UNCHANGED <<now, rlLast, cpc, cargs, blobSt, cloc, cresult, remoteHead,
                reqAtCall, projects, projectSources, activeProjectName, lastOp,
                persisted, nOps, activeFilePath, modalConfig, settings,
                inflight, rendered, created, sideVars>>

\* verifyToken(token) up to its first await: GET /user goes out through
\* fetch itself
VerifyToken(token) ==
    /\ api.pc = "idle"
    /\ LET a == [api EXCEPT !.op = "verifyToken", !.entry = "service"]
       IN  IF ~validateGitHubToken(token)
           THEN /\ api' = ApiReturned(a, FALSE)
                /\ UNCHANGED calls
           ELSE /\ api' = [a EXCEPT !.pc = "user"]
                /\ calls' = Append(calls, [kind |-> "GET user"])
    /\ UNCHANGED <<requests, admitted, isLoading>>
    /\ ApiFrame

\* The answer to GET /user; with the repo scope GET /user/emails goes out
\* through githubFetch, whose errors the catch turns into a result
RespUser(resp, scopes) ==
    /\ api.op = "verifyToken"
    /\ api.pc = "user"
    /\ IF resp.status # 200 \/ "repo" \notin scopes
       THEN /\ api' = ApiReturned(api, FALSE)
            /\ UNCHANGED <<requests, calls, admitted>>
       ELSE ApiFetch(api, [kind |-> "GET emails"], "emails",
                     ApiReturned(api, FALSE))
    /\ UNCHANGED isLoading
    /\ ApiFrame

\* The answer to GET /user/emails
RespEmails(resp, emails) ==
    /\ api.op = "verifyToken"
    /\ api.pc = "emails"
    /\ LET a == Answered(api, resp)
           out == githubFetchResponse(resp)
       IN  api' = ApiReturned(a,
                     /\ ~out.threw
                     /\ out.value # Null
                     /\ \E i \in 1..Len(emails) :
                            emails[i].primary /\ emails[i].verified)
    /\ UNCHANGED <<requests, calls, admitted, isLoading>>
    /\ ApiFrame

\* `${owner}/${repo}`
RepoName(owner, repo) == IF owner = "o" /\ repo = "r" THEN "o/r" ELSE ""

RepoArgs ==
    {[entry |-> "service", owner |-> "", repo |-> "r"],
     [entry |-> "service", owner |-> "o", repo |-> ""],
     [entry |-> "service", owner |-> "o", repo |-> "r"],
     [entry |-> "app", owner |-> "o", repo |-> "r"]}

\* getRepoContents(owner, repo, token) up to its first await, called on
\* its own or from the import dialog's onConfirm; tree is what the remote
\* holds at the branch head
GetRepoContents(args, tree) ==
    /\ api.pc = "idle"
    /\ isLoading' = (args.entry = "app")
    /\ LET a == [api EXCEPT !.op = "getRepoContents", !.entry = args.entry,
                            !.owner = args.owner, !.repo = args.repo,
                            !.tree = tree]
       IN  IF args.owner = "" \/ args.repo = ""
           THEN /\ api' = ApiThrew(a, "VALIDATION")
                /\ UNCHANGED <<requests, calls, admitted>>
           ELSE ApiFetch(a, [kind |-> "GET repo"], "repo",
                         ApiThrew(a, "RATE_LIMIT"))
    /\ ApiFrame

\* What a failed step of getRepoContents rejects with: githubFetch's error,
\* or the TypeError of reading a property of null
StepError(out) == IF out.threw THEN out.type ELSE "SYSTEM"

\* The answer to GET /repos/{owner}/{repo}
RespRepo(resp) ==
    /\ api.op = "getRepoContents"
    /\ api.pc = "repo"
    /\ LET a == Answered(api, resp)
           out == githubFetchResponse(resp)
       IN  IF out.threw \/ out.value = Null
           THEN /\ api' = ApiThrew(a, StepError(out))
                /\ UNCHANGED <<requests, calls, admitted>>
           ELSE ApiFetch(a, [kind |-> "GET branch"], "branch",
                         ApiThrew(a, "RATE_LIMIT"))
    /\ UNCHANGED isLoading
    /\ ApiFrame

\* The answer to GET /repos/{owner}/{repo}/branches/{branch}
RespBranch(resp) ==
    /\ api.op = "getRepoContents"
    /\ api.pc = "branch"
    /\ LET a == [Answered(api, resp) EXCEPT !.latestCommitSha = remoteHead]
           out == githubFetchResponse(resp)
       IN  IF out.threw \/ out.value = Null
           THEN /\ api' = ApiThrew(Answered(api, resp), StepError(out))
                /\ UNCHANGED <<requests, calls, admitted>>
           ELSE ApiFetch(a, [kind |-> "GET tree",
                             sha |-> TreeOfCommit(remoteHead)], "tree",
                         ApiThrew(a, "RATE_LIMIT"))
    /\ UNCHANGED isLoading
    /\ ApiFrame

\* items.map(async item => { try { await githubFetch(...) } catch { null } }):
\* every call runs up to its await before map moves on, a refused one ends
\* in the catch
RECURSIVE GetBlobFanOut(_, _, _, _)
GetBlobFanOut(items, i, reqs, t) ==
    IF i > Len(items)
    THEN [requests |-> reqs, st |-> <<>>, sent |-> <<>>]
    ELSE LET r == isAllowed(reqs, t, GithubMaxRequests, GithubWindowMs)
             rest == GetBlobFanOut(items, i + 1, r.requests, t)
         IN  [requests |-> rest.requests,
              st |-> <<IF r.allowed THEN "pending" ELSE "refused">> \o rest.st,
              sent |-> (IF r.allowed
                        THEN <<[kind |-> "GET blob", sha |-> items[i].sha]>>
                        ELSE <<>>) \o rest.sent]

\* results.filter(file => file !== null) over what the blob promises gave
ImportFilesUntilFailure(items, st) ==
    LET firstBad == MinOf({i \in 1..Len(items) : st[i] # "ok"} \cup {Len(items) + 1})
    IN  [i \in 1..(firstBad - 1) |->
            NewFile(items[i].path,
                    b64_to_utf8(BlobData(items[i].sha).content), FALSE)]

ImportFiles(items, st) ==
    SelectSeqIdx([i \in 1..Len(items) |->
                     NewFile(items[i].path,
                             b64_to_utf8(BlobData(items[i].sha).content), FALSE)],
                 LAMBDA i : st[i] = "ok")

\* Promise.all over promises that never reject: settled once none is pending
ImportSettledOrPending(a) ==
    IF \E i \in 1..Len(a.st) : a.st[i] = "pending"
    THEN [a EXCEPT !.pc = "blobs"]
    ELSE [a EXCEPT !.pc = "done",
                   !.result = [NoApiResult EXCEPT
                                 !.status = "ok",
                                 !.files = ImportFiles(a.items, a.st),
                                 !.latestCommitSha = a.latestCommitSha,
                                 !.branch = "main"]]

\* The answer to GET /git/trees/{treeSha}?recursive=1; on success the blob
\* requests go out
RespRepoTree(resp) ==
    /\ api.op = "getRepoContents"
    /\ api.pc = "tree"
    /\ LET a == Answered(api, resp)
           out == githubFetchResponse(resp)
       IN  IF out.threw \/ out.value = Null
           THEN /\ api' = ApiThrew(a, StepError(out))
                /\ UNCHANGED <<requests, calls, admitted>>
           ELSE LET items == TextBlobs(api.tree)
                    fan == GetBlobFanOut(items, 1, requests, now)
                IN  /\ requests' = fan.requests
                    /\ calls' = calls \o fan.sent
                    /\ admitted' = admitted \o [k \in 1..Len(fan.sent) |-> now]
                    /\ api' = ImportSettledOrPending(
                          [a EXCEPT !.items = items, !.st = fan.st,
                                    !.refused = @ + Cardinality(
                                        {i \in 1..Len(items) : fan.st[i] = "refused"})])
    /\ UNCHANGED isLoading
    /\ ApiFrame

\* The answer to one GET /git/blobs/{sha}, in any order
RespRepoBlob(i, resp) ==
    /\ api.op = "getRepoContents"
    /\ api.pc = "blobs"
    /\ i \in 1..Len(api.st)
    /\ api.st[i] = "pending"
    /\ LET out == githubFetchResponse(resp)
           a == [Answered(api, resp) EXCEPT
                   !.st[i] = IF out.threw \/ out.value = Null THEN "err" ELSE "ok"]
       IN  api' = ImportSettledOrPending(a)
    /\ UNCHANGED <<requests, calls, admitted, isLoading>>
    /\ ApiFrame

\* Someone pushes to the branch while the import runs
PushDuringImport ==
    /\ api.op = "getRepoContents"
    /\ api.pc \notin {"idle", "done", "failed"}
    /\ remoteHead = BaseSha
    /\ remoteHead' = OtherSha
    /\ UNCHANGED <<rlVars, cpc, cargs, calls, blobSt, cloc, cresult, reqAtCall,
                   storeVars>>

\* setProjectData of the import
setProjectData(projectName, files, latestCommitSha) ==
    /\ projects' = ObjSet(projects, projectName, files)
    /\ projectSources' = ObjSet(projectSources, projectName,
                                GithubSource(latestCommitSha))
    /\ activeProjectName' = projectName
    /\ activeFilePath' = SelectedPath(projects', projectName, activeFilePath)
    /\ UNCHANGED persisted

\* const { files, latestCommitSha, branch } = await ...: the statements
\* after the await run when the call resolved, the catch when it rejected
ImportAlwaysResolved(a) == TRUE

ImportResolved(a) == a.pc = "done"

\* The rest of the import dialog's onConfirm once getRepoContents has
\* settled: the try block, the catch and the finally
ImportSettled ==
    /\ api.op = "getRepoContents"
    /\ api.entry = "app"
    /\ api.pc \in {"done", "failed"}
    /\ ~api.settled
    /\ api' = [api EXCEPT !.settled = TRUE]
    /\ isLoading' = FALSE
    /\ LET projectName == RepoName(api.owner, api.repo)
       IN  IF ~ImportResolved(api)
           THEN UNCHANGED <<projects, projectSources, activeProjectName,
                            persisted, activeFilePath, modalConfig>>
           ELSE IF ObjHas(projects, projectName)
           THEN /\ modalConfig' = Dialog("Overwrite Project",
                      [name |-> projectName,
                       latestCommitSha |-> api.result.latestCommitSha])
                /\ UNCHANGED <<projects, projectSources, activeProjectName,
                               persisted, activeFilePath>>
           ELSE /\ setProjectData(projectName, api.result.files,
                                  api.result.latestCommitSha)
                /\ modalConfig' = Null
    /\ lastOp' = Op("ImportSettled", RepoName(api.owner, api.repo), "", "")
    /\ UNCHANGED <<rlVars, commitVars, nOps, settings, inflight, rendered,
                   created, sideVars>>

-----------------------------------------------------------------------------
(* useAppState between two renders: the callbacks close over the projects   *)
(* and the active name of the last render, the updaters run on the latest   *)
(* state                                                                    *)

NoRender == [projects |-> <<>>, activeProjectName |-> ""]

RenderNames == {"Welcome Project", "7", "demo"}
RenderNameInputs == RenderNames \cup {"o/r"}

\* The state a call finds, kept for the comparison with what it leaves
StoreBefore ==
    [projects |-> projects, projectSources |-> projectSources,
     activeProjectName |-> activeProjectName, created |-> created]

RenderFrame ==
    /\ nOps < MaxOps
    /\ nOps' = nOps + 1
    /\ UNCHANGED <<rlVars, commitVars, persisted, uiVars, api, rendered,
                   sideVars>>

\* The component renders: new callbacks close over the current state
Render ==
    /\ rendered # [projects |-> projects, activeProjectName |-> activeProjectName]
    /\ rendered' = [projects |-> projects, activeProjectName |-> activeProjectName]
    /\ UNCHANGED <<rlVars, commitVars, projects, projectSources,
                   activeProjectName, lastOp, persisted, nOps, uiVars, api,
                   created, sideVars>>

\* What the call found: whether the store holds the name, and whether the
\* component has rendered since the last change of the store
Found(name, files) ==
    [inStore |-> ObjHas(projects, name), files |-> files,
     fresh |-> rendered = [projects |-> projects,
                           activeProjectName |-> activeProjectName]]

\* if (projects[name]) throw ...: the projects of the render
createProjectSees(name) == ObjHas(rendered.projects, name)

createProjectCall(name, files) ==
    /\ lastOp' = [Op("createProject", name, "", "") EXCEPT
                     !.threw = ~validateProjectName(name) \/ createProjectSees(name),
                     !.before = StoreBefore,
                     !.info = Found(name, files)]
    /\ IF ~validateProjectName(name) \/ createProjectSees(name)
       THEN UNCHANGED <<projects, projectSources, activeProjectName, created>>
       ELSE LET newFiles == IF Len(files) > 0 THEN files ELSE initialProject
            IN  /\ projects' = ObjSet(projects, name, newFiles)
                /\ projectSources' = ObjSet(projectSources, name, MemorySource)
                /\ activeProjectName' = name
                /\ created' = IF ObjHas(projects, name) THEN created
                              ELSE Append(created, name)
    /\ RenderFrame

\* Object.keys(projects).filter(p => p !== name)
remainingProjects(name) ==
    SelectSeq(ObjKeys(rendered.projects), LAMBDA p : p # name)

deleteProjectCall(name) ==
    /\ lastOp' = [Op("deleteProject", name, "", "") EXCEPT
                     !.threw = ~ObjHas(rendered.projects, name),
                     !.before = StoreBefore,
                     !.info = Found(name, <<>>)]
    /\ IF ~ObjHas(rendered.projects, name)
       THEN UNCHANGED <<projects, projectSources, activeProjectName, created>>
       ELSE /\ projects' = ObjDelete(projects, name)
            /\ projectSources' = ObjDelete(projectSources, name)
            /\ activeProjectName' =
                  IF rendered.activeProjectName = name
                  THEN IF Len(remainingProjects(name)) > 0
                       THEN remainingProjects(name)[1] ELSE ""
                  ELSE activeProjectName
            /\ created' = SelectSeq(created, LAMBDA p : p # name)
    /\ RenderFrame

switchToProjectCall(name) ==
    /\ lastOp' = [Op("switchToProject", name, "", "") EXCEPT
                     !.threw = ~ObjHas(rendered.projects, name),
                     !.before = StoreBefore]
    /\ activeProjectName' =
          IF ObjHas(rendered.projects, name) THEN name ELSE activeProjectName
    /\ UNCHANGED <<projects, projectSources, created>>
    /\ RenderFrame

-----------------------------------------------------------------------------
(* utils/errorHandling.ts: ErrorHandler, withErrorHandling, and the catch  *)
(* block of geminiService.runAIAssistantInternal                            *)

\* A message is a sequence of parts; a part is a fixed text or a string of
\* one of the shapes below.
Text(t) == [shape |-> "text", value |-> t]

\* ghp_ and 36 characters, AIza and 35, sk- and 48, "Bearer " and a token,
\* an e-mail address; github_pat_ is the prefix of a fine-grained GitHub
\* token (validateGitHubToken accepts it)
SecretShapes == {"ghp_", "AIza", "sk-", "Bearer", "email", "github_pat_"}
SecretPart(shape) == [shape |-> shape, value |-> "x"]

\* message.toLowerCase().includes(needle), part by part. The secrets of the
\* model hold none of the needles.
LowerNeedles(text) ==
    CASE text = "Failed to fetch" -> {"fetch", "ai"}
      [] text = "Bad credentials" -> {"credentials"}
      [] text = "API key not valid: " -> {"api"}
      [] text = "You exceeded your current quota" -> {}
      [] text = "Invalid file path: " -> {}
      [] text = "Empty response from AI service" -> {"ai"}
      [] text = "AI service error: " -> {"ai"}
      [] text = "Unknown AI service error" -> {"ai"}
      [] text = "Invalid or missing API key" -> {"api"}
      [] text = "Rate limit exceeded. Please wait before making more requests."
            -> {"rate limit", "ai"}
      [] OTHER -> {}

\* message.includes(needle), case-sensitive
ExactNeedles(text) ==
    CASE text = "API key not valid: " -> {"API key"}
      [] text = "You exceeded your current quota" -> {"quota"}
      [] text = "Invalid or missing API key" -> {"API key"}
      [] text = "Rate limit exceeded. Please wait before making more requests."
            -> {"limit"}
      [] OTHER -> {}

includesLower(message, needle) ==
    \E i \in DOMAIN message :
        /\ message[i].shape = "text"
        /\ needle \in LowerNeedles(message[i].value)

includes(message, needle) ==
    \E i \in DOMAIN message :
        /\ message[i].shape = "text"
        /\ needle \in ExactNeedles(message[i].value)

\* message.replace(pattern, placeholder) with the g flag
replaceAll(message, shape, placeholder) ==
    [i \in DOMAIN message |->
        IF message[i].shape = shape THEN Text(placeholder) ELSE message[i]]

sanitizeErrorMessage(message) ==
    replaceAll(
      replaceAll(
        replaceAll(
          replaceAll(
            replaceAll(message, "ghp_", "[GITHUB_TOKEN]"),
            "AIza", "[API_KEY]"),
          "sk-", "[SECRET_KEY]"),
        "Bearer", "[BEARER_TOKEN]"),
      "email", "[EMAIL]")

RATE_LIMIT_EXCEEDED ==
    <<Text("Rate limit exceeded. Please wait before making more requests.")>>

\* What can be thrown: an AppError, another Error, or a value that is no Error
\* new AppError(type, message, code, context): context is null unless given
AppErrorWith(type, message, context) ==
    [class |-> "AppError", type |-> type, message |-> message,
     context |-> context]
AppError(type, message) == AppErrorWith(type, message, Null)
Error(message) ==
    [class |-> "Error", type |-> "", message |-> message, context |-> Null]
NotAnError ==
    [class |-> "other", type |-> "", message |-> <<>>, context |-> Null]
NoError ==
    [class |-> "none", type |-> "", message |-> <<>>, context |-> Null]

\* ErrorHandler.handle
handle(error, context) ==
    IF error.class = "AppError" THEN error
    ELSE IF error.class = "Error"
    THEN LET message == error.message
             Classified(type, text) ==
                 AppErrorWith(type, text, [context |-> context])
         IN  IF includesLower(message, "network") \/ includesLower(message, "fetch")
             THEN Classified("NETWORK", message)
             ELSE IF \/ includesLower(message, "auth")
                     \/ includesLower(message, "token")
                     \/ includesLower(message, "credentials")
             THEN Classified("AUTH", sanitizeErrorMessage(message))
             ELSE IF \/ includesLower(message, "rate limit")
                     \/ includesLower(message, "too many requests")
             THEN Classified("RATE_LIMIT", message)
             ELSE IF \/ includesLower(message, "ai")
                     \/ includesLower(message, "gemini")
                     \/ includesLower(message, "api")
             THEN Classified("AI_SERVICE", message)
             ELSE Classified("SYSTEM", message)
    ELSE AppErrorWith("SYSTEM", <<Text("An unexpected error occurred")>>,
                      [context |-> context])

\* The factories
validation(message) == AppError("VALIDATION", message)
network(message) == AppError("NETWORK", message)
auth(message) == AppError("AUTH", sanitizeErrorMessage(message))
aiService(message) == AppError("AI_SERVICE", message)
github(message) == AppError("GITHUB", sanitizeErrorMessage(message))
rateLimit == AppError("RATE_LIMIT", RATE_LIMIT_EXCEEDED)

Factories == {"validation", "network", "auth", "aiService", "github", "rateLimit"}

factory(name, message) ==
    CASE name = "validation" -> validation(message)
      [] name = "network" -> network(message)
      [] name = "auth" -> auth(message)
      [] name = "aiService" -> aiService(message)
      [] name = "github" -> github(message)
      [] OTHER -> rateLimit

\* ErrorHandler.log: the logData handed to the console
logData(error) == [type |-> error.type, message |-> error.message]

\* The messages of the errors a lower layer raises: a text, possibly
\* completed with a secret-shaped string
RawTexts ==
    {"Failed to fetch", "Bad credentials", "API key not valid: ",
     "You exceeded your current quota", "Invalid file path: "}
RawMessages ==
    {<<Text(t)>> : t \in RawTexts}
      \cup {<<Text(t), SecretPart(s)>> : t \in RawTexts, s \in SecretShapes}
RawErrors == {Error(m) : m \in RawMessages} \cup {NotAnError}
ClassifiedTypes == {"VALIDATION", "AI_SERVICE", "STORAGE"}
ClassifiedErrors ==
    {AppError(t, <<Text(x)>>) : t \in ClassifiedTypes,
                                x \in {"Failed to fetch", "Bad credentials"}}

\* ai.models.generateContent: a text, an empty text, or a rejection
GenerateOutcomes ==
    {[kind |-> "text", error |-> NoError], [kind |-> "empty", error |-> NoError]}
      \cup {[kind |-> "throws", error |-> e] : e \in RawErrors}

\* The catch block of runAIAssistantInternal
aiCatch(error) ==
    IF error.class \in {"Error", "AppError"}
    THEN IF includes(error.message, "API key")
         THEN auth(<<Text("Invalid or missing API key")>>)
         ELSE IF includes(error.message, "quota") \/ includes(error.message, "limit")
         THEN rateLimit
         ELSE aiService(<<Text("AI service error: ")>> \o error.message)
    ELSE aiService(<<Text("Unknown AI service error")>>)

\* runAIAssistantInternal after the limiter admitted the call: the error
\* first raised inside the try block and the error that leaves the function
runAIAssistantInternal(outcome) ==
    LET first == IF outcome.kind = "empty"
                 THEN aiService(<<Text("Empty response from AI service")>>)
                 ELSE outcome.error
    IN  [first |-> first,
         thrown |-> IF first = NoError THEN NoError ELSE aiCatch(first)]

NoErrorState ==
    [site |-> "", raised |-> NoError, out |-> NoError, logged |-> <<>>]

ErrFrame ==
    UNCHANGED <<commitVars, projects, projectSources, activeProjectName,
                lastOp, persisted, nOps, uiVars, api, rendered, created, panel>>

\* ErrorHandler.handle(error) at a call site of its own
Handle(error) ==
    /\ eh' = [site |-> "handle", raised |-> error, out |-> handle(error, ""),
              logged |-> <<>>]
    /\ UNCHANGED rlVars
    /\ ErrFrame

\* One of the factories builds an error from a lower layer's message
Factory(name, message) ==
    /\ eh' = [site |-> "factory", raised |-> Error(message),
              out |-> factory(name, message), logged |-> <<>>]
    /\ UNCHANGED rlVars
    /\ ErrFrame

\* A function wrapped by withErrorHandling(fn, 'wrapped') rejects with error
WithErrorHandling(error) ==
    LET appError == handle(error, "wrapped")
    IN  /\ eh' = [site |-> "withErrorHandling", raised |-> error,
                  out |-> appError, logged |-> <<logData(appError)>>]
        /\ UNCHANGED rlVars
        /\ ErrFrame

\* runAIAssistant: the limiter test, the call, the catch block and the
\* wrapper
RunAIAssistant(outcome) ==
    LET r == isAllowed(requests, now, RLMax, RLWindow)
        inner == IF r.allowed THEN runAIAssistantInternal(outcome)
                 ELSE [first |-> rateLimit, thrown |-> rateLimit]
        appError == IF inner.thrown = NoError THEN NoError
                    ELSE handle(inner.thrown, "AI Service")
    IN  /\ requests' = r.requests
        /\ admitted' = IF r.allowed THEN Append(admitted, now) ELSE admitted
        /\ eh' = [site |-> "runAIAssistant", raised |-> inner.first,
                  out |-> appError,
                  logged |-> IF appError = NoError THEN <<>>
                             ELSE <<logData(appError)>>]
        /\ UNCHANGED <<now, rlLast>>
        /\ ErrFrame

\* githubFetch when the limiter refuses the call: waitTime is computed and
\* ErrorHandler.rateLimit() is thrown
githubFetchRefused(reqs, t, windowMs) ==
    LET waitTime == (getTimeUntilReset(reqs, t, windowMs) + 999) \div 1000
    IN  rateLimit

\* One githubFetch call up to its request, on a limiter of its own
GithubFetchCall ==
    LET r == isAllowed(requests, now, RLMax, RLWindow)
        thrown == githubFetchRefused(r.requests, now, RLWindow)
    IN  /\ requests' = r.requests
        /\ rlLast' = [called |-> TRUE, allowed |-> r.allowed,
                      before |-> requests, at |-> now,
                      everRefused |-> rlLast.everRefused \/ ~r.allowed]
        /\ admitted' = IF r.allowed THEN Append(admitted, now) ELSE admitted
        /\ eh' = IF r.allowed THEN [NoErrorState EXCEPT !.site = "githubFetch"]
                 ELSE [site |-> "githubFetch", raised |-> thrown,
                       out |-> thrown, logged |-> <<>>]
        /\ UNCHANGED now
        /\ ErrFrame

-----------------------------------------------------------------------------
(* components/SettingsPanel.tsx: saving and verifying the token *)

\* The most clicks and keystrokes in the panel
MaxPanelOps == 5

\* What the user types into the token field. "ghp_" is a token being typed.
PanelTokens == {"", "ghp_", "ghp_A", "ghp_B"}

\* The prefix and length validateGitHubToken looks at
tokenShape(token) ==
    CASE token = "" -> [prefix |-> "", length |-> 0]
      [] token = "ghp_" -> [prefix |-> "ghp_", length |-> 39]
      [] OTHER -> [prefix |-> "ghp_", length |-> 40]

\* The account a token belongs to: what GET /user answers for it
userData(token) ==
    CASE token = "ghp_A" -> [login |-> "alice", name |-> ""]
      [] token = "ghp_B" -> [login |-> "bob", name |-> "Bob"]
      [] OTHER -> [login |-> "n", name |-> "n"]

\* The address GET /user/emails lists for the account
emailOf(login) ==
    CASE login = "alice" -> "alice@e"
      [] login = "bob" -> "bob@e"
      [] OTHER -> "e"

\* The /user/emails answers for an account
EmailAnswers(login) ==
    {<<>>,
     <<[email |-> emailOf(login), primary |-> TRUE, verified |-> FALSE]>>,
     <<[email |-> "old@e", primary |-> FALSE, verified |-> TRUE],
       [email |-> emailOf(login), primary |-> TRUE, verified |-> TRUE]>>}

\* emails.find(e => e.primary && e.verified)
primaryEmail(emails) ==
    LET found == {i \in 1..Len(emails) : emails[i].primary /\ emails[i].verified}
    IN  IF found = {} THEN Null ELSE emails[MinOf(found)]

\* { name: userData.name || userData.login, email: primaryEmail.email }
githubUserOf(data, email) ==
    [name |-> IF data.name # "" THEN data.name ELSE data.login, email |-> email]

\* The users a successful identity check of the token can give
VerifiedUsers(token) ==
    {githubUserOf(userData(token), primaryEmail(emails).email) :
        emails \in {l \in EmailAnswers(userData(token).login) :
                        primaryEmail(l) # Null}}

PanelIdle ==
    [localToken |-> "", verificationStatus |-> "idle", saveStatus |-> "idle",
     verifying |-> <<>>, ops |-> 0, raced |-> FALSE]

\* useState(settings.githubToken || '')
PanelMounted(s) == [PanelIdle EXCEPT !.localToken = s.githubToken]

PanelFrame ==
    UNCHANGED <<now, rlLast, cpc, cargs, blobSt, cloc, cresult, remoteHead,
                reqAtCall, projects, projectSources, activeProjectName,
                persisted, nOps, activeFilePath, isLoading, modalConfig,
                inflight, api, rendered, created, eh>>

\* A click or a keystroke in the panel: no dialog covers it
PanelInput ==
    /\ modalConfig = Null
    /\ panel.ops < MaxPanelOps
    /\ lastOp' = UiOp

handleTokenInputChange(value) ==
    /\ PanelInput
    /\ value # panel.localToken
    /\ panel' = [panel EXCEPT !.localToken = value,
                              !.verificationStatus = "idle",
                              !.saveStatus = "idle",
                              !.ops = @ + 1]
    /\ UNCHANGED <<requests, admitted, calls, settings>>
    /\ PanelFrame

\* onSettingsChange({ ...settings, githubToken: localToken, githubUser: null })
tokenSavedKeepingUser(s, localToken) == [s EXCEPT !.githubToken = localToken]

tokenSaved(s, localToken) == [githubToken |-> localToken, githubUser |-> Null]

handleTokenSave ==
    /\ PanelInput
    /\ panel.saveStatus # "saved"
    /\ panel.localToken # ""
    /\ settings' = tokenSaved(settings, panel.localToken)
    /\ panel' = [panel EXCEPT
          !.saveStatus = "saved",
          !.verificationStatus = "idle",
          !.ops = @ + 1,
          !.raced = @ \/ \E i \in 1..Len(panel.verifying) :
                            panel.verifying[i].token # panel.localToken]
    /\ UNCHANGED <<requests, admitted, calls>>
    /\ PanelFrame

\* setTimeout(() => setSaveStatus('idle'), 2000)
SaveStatusTimeout ==
    /\ panel.saveStatus = "saved"
    /\ panel' = [panel EXCEPT !.saveStatus = "idle"]
    /\ UNCHANGED <<requests, admitted, calls, settings, lastOp>>
    /\ PanelFrame

\* handleVerifyToken up to the first await of verifyToken(localToken): a
\* token of the wrong format is answered without a request
handleVerifyToken ==
    /\ PanelInput
    /\ panel.localToken # ""
    /\ panel.verificationStatus # "verifying"
    /\ Len(panel.verifying) < MaxInFlight
    /\ IF ~validateGitHubToken(tokenShape(panel.localToken))
       THEN /\ panel' = [panel EXCEPT !.verificationStatus = "error",
                                      !.ops = @ + 1]
            /\ UNCHANGED calls
       ELSE /\ panel' = [panel EXCEPT
                  !.verificationStatus = "verifying",
                  !.ops = @ + 1,
                  !.verifying = Append(@, [token |-> panel.localToken,
                                           pc |-> "user"])]
            /\ calls' = Append(calls, [kind |-> "GET user"])
    /\ UNCHANGED <<requests, admitted, settings>>
    /\ PanelFrame

\* The verification resolves with { success: false }: the rest of
\* handleVerifyToken
verifyFailed(i) ==
    [panel EXCEPT !.verifying = Without(@, i), !.verificationStatus = "error"]

\* GET /user is answered; with the repo scope GET /user/emails goes out
\* through githubFetch, whose refusal the catch turns into a failure
VerifyRespUser(i, status, scopes) ==
    /\ i \in 1..Len(panel.verifying)
    /\ panel.verifying[i].pc = "user"
    /\ IF status # 200 \/ "repo" \notin scopes
       THEN /\ panel' = verifyFailed(i)
            /\ UNCHANGED <<requests, admitted, calls>>
       ELSE LET r == isAllowed(requests, now, GithubMaxRequests, GithubWindowMs)
            IN  /\ requests' = r.requests
                /\ IF r.allowed
                   THEN /\ calls' = Append(calls, [kind |-> "GET emails"])
                        /\ admitted' = Append(admitted, now)
                        /\ panel' = [panel EXCEPT !.verifying[i].pc = "emails"]
                   ELSE /\ panel' = verifyFailed(i)
                        /\ UNCHANGED <<admitted, calls>>
    /\ UNCHANGED <<settings, lastOp>>
    /\ PanelFrame

\* GET /user/emails is answered: the rest of verifyTokenInternal and of
\* handleVerifyToken, which saves the token it verified with its user
VerifyRespEmails(i, resp, emails) ==
    /\ i \in 1..Len(panel.verifying)
    /\ panel.verifying[i].pc = "emails"
    /\ LET token == panel.verifying[i].token
           out == githubFetchResponse(resp)
           found == IF out.threw \/ out.value = Null THEN Null
                    ELSE primaryEmail(emails)
       IN  /\ emails \in EmailAnswers(userData(token).login)
           /\ IF found = Null
              THEN /\ panel' = verifyFailed(i)
                   /\ UNCHANGED settings
              ELSE /\ panel' = [panel EXCEPT !.verifying = Without(@, i),
                                             !.verificationStatus = "success"]
                   /\ settings' = [githubToken |-> token,
                                   githubUser |-> githubUserOf(userData(token),
                                                               found.email)]
    /\ UNCHANGED <<requests, admitted, calls, lastOp>>
    /\ PanelFrame

-----------------------------------------------------------------------------
(* Initial states and the specifications *)

InitExtIdle ==
    /\ api = ApiIdle
    /\ rendered = NoRender
    /\ created = <<>>
    /\ eh = NoErrorState
    /\ panel = PanelIdle

InitUiIdle ==
    /\ InitExtIdle
    /\ activeFilePath = ""
    /\ isLoading = FALSE
    /\ modalConfig = Null
    /\ settings = NoSettings
    /\ inflight = <<>>

InitRLIdle ==
    /\ requests = <<>>
    /\ now = 0
    /\ rlLast = NoRlCall
    /\ admitted = <<>>

InitCommitIdle ==
    /\ cpc = "idle"
    /\ cargs = NoArgs
    /\ calls = <<>>
    /\ blobSt = <<>>
    /\ cloc = NoLocals
    /\ cresult = NoResult
    /\ remoteHead = BaseSha
    /\ reqAtCall = <<>>

InitStoreIdle ==
    /\ projects = <<>>
    /\ projectSources = <<>>
    /\ activeProjectName = ""
    /\ lastOp = NoOp
    /\ persisted = NothingPersisted
    /\ nOps = 0
    /\ InitUiIdle

\* The rate limiter alone
InitRL == InitRLIdle /\ InitCommitIdle /\ InitStoreIdle

NextRL ==
    \/ Tick /\ UNCHANGED <<commitVars, storeVars>>
    \/ IsAllowedCall /\ UNCHANGED <<commitVars, storeVars>>
    \/ GithubFetchCall

SpecRL == InitRL /\ [][NextRL]_vars

\* One commitFiles call; the limiter has admitted any number of earlier
\* requests within the window.
InitCommit ==
    /\ requests \in {[i \in 1..k |-> 0] : k \in 0..GithubMaxRequests}
    /\ now = 0
    /\ rlLast = NoRlCall
    /\ admitted = <<>>
    /\ InitCommitIdle
    /\ InitStoreIdle

NextCommit ==
    \/ \E a \in CommitInputs : CommitFiles(a) /\ UNCHANGED storeVars
    \/ \E st \in Statuses : RespBaseCommit(st) /\ UNCHANGED storeVars
    \/ \E i \in 1..MaxFiles, st \in Statuses : RespBlob(i, st) /\ UNCHANGED storeVars
    \/ \E st \in Statuses : RespTree(st) /\ UNCHANGED storeVars
    \/ \E st \in Statuses : RespCommit(st) /\ UNCHANGED storeVars
    \/ \E st \in Statuses : RespRef(st) /\ UNCHANGED storeVars
    \/ OtherPush /\ UNCHANGED storeVars

SpecCommit == InitCommit /\ [][NextCommit]_vars

\* The store as useAppState constructs it, driven through the hook's API
InitStore ==
    /\ InitRLIdle
    /\ InitCommitIdle
    /\ projects = <<[key |-> "Welcome Project", val |-> initialProject]>>
    /\ projectSources = <<>>
    /\ activeProjectName = "Welcome Project"
    /\ lastOp = NoOp
    /\ persisted = [NothingPersisted EXCEPT
                        !["Welcome Project"] = CleanContents(initialProject)]
    /\ nOps = 0
    /\ InitUiIdle

\* One more call of the hook's API
HookCall ==
    /\ nOps < MaxOps
    /\ nOps' = nOps + 1
    /\ UNCHANGED <<rlVars, commitVars, uiVars, extVars>>

NextStore ==
    \/ \E name \in NameInputs, files \in FileListInputs :
            createProject(name, files) /\ HookCall
    \/ \E name \in Names : deleteProject(name) /\ HookCall
    \/ \E name \in Names, files \in FileListInputs :
            updateProject(name, files) /\ HookCall
    \/ \E name \in Names, source \in SourceInputs :
            updateProjectSource(name, source) /\ HookCall
    \/ \E name \in Names : switchToProject(name) /\ HookCall
    \/ \E path \in Paths, content \in Contents :
            updateFile(path, content) /\ HookCall
    \/ \E path \in Paths : addFile(path, "c2") /\ HookCall
    \/ \E path \in Paths : deleteFile(path) /\ HookCall
    \/ \E filePaths \in FilePathsInputs :
            markFilesSaved(filePaths) /\ HookCall

SpecStore == InitStore /\ [][NextStore]_vars

\* verifyToken or getRepoContents once, on its own or from the import
\* dialog of the App; the limiter has admitted any number of earlier
\* requests within the window.
InitImport ==
    /\ requests \in {[i \in 1..k |-> 0] : k \in 0..GithubMaxRequests}
    /\ now = 0
    /\ rlLast = NoRlCall
    /\ admitted = <<>>
    /\ InitCommitIdle
    /\ projects = <<[key |-> "Welcome Project", val |-> initialProject]>>
    /\ projectSources = <<[key |-> "Welcome Project", val |-> MemorySource]>>
    /\ activeProjectName = "Welcome Project"
    /\ lastOp = NoOp
    /\ persisted = NothingPersisted
    /\ nOps = 0
    /\ activeFilePath = "prompt.txt"
    /\ isLoading = FALSE
    /\ modalConfig = Null
    /\ settings = VerifiedSettings
    /\ inflight = <<>>
    /\ InitExtIdle

NextImport ==
    \/ \E token \in TokenInputs : VerifyToken(token)
    \/ \E resp \in Responses, scopes \in ScopeInputs : RespUser(resp, scopes)
    \/ \E resp \in Responses, emails \in EmailInputs : RespEmails(resp, emails)
    \/ \E args \in RepoArgs, tree \in TreeInputs : GetRepoContents(args, tree)
    \/ \E resp \in Responses : RespRepo(resp)
    \/ \E resp \in Responses : RespBranch(resp)
    \/ \E resp \in Responses : RespRepoTree(resp)
    \/ \E i \in 1..Len(RepoTree), resp \in Responses : RespRepoBlob(i, resp)
    \/ PushDuringImport
    \/ ImportSettled

SpecImport == InitImport /\ [][NextImport]_vars

\* The hook after its first render, its project calls and its renders
InitRender ==
    /\ InitRLIdle
    /\ InitCommitIdle
    /\ projects = <<[key |-> "Welcome Project", val |-> initialProject]>>
    /\ projectSources = <<>>
    /\ activeProjectName = "Welcome Project"
    /\ lastOp = NoOp
    /\ persisted = NothingPersisted
    /\ nOps = 0
    /\ activeFilePath = ""
    /\ isLoading = FALSE
    /\ modalConfig = Null
    /\ settings = NoSettings
    /\ inflight = <<>>
    /\ api = ApiIdle
    /\ rendered = [projects |-> projects, activeProjectName |-> activeProjectName]
    /\ created = <<"Welcome Project">>
    /\ eh = NoErrorState
    /\ panel = PanelIdle

NextRender ==
    \/ \E name \in RenderNameInputs, files \in FileListInputs :
            createProjectCall(name, files)
    \/ \E name \in RenderNames : deleteProjectCall(name)
    \/ \E name \in RenderNames : switchToProjectCall(name)
    \/ Render

SpecRender == InitRender /\ [][NextRender]_vars

\* ErrorHandler and the assistant call; the clock stands still, so the
\* limiter refuses once RLMax calls were admitted
InitErr == InitRLIdle /\ InitCommitIdle /\ InitStoreIdle

NextErr ==
    \/ \E error \in RawErrors \cup ClassifiedErrors : Handle(error)
    \/ \E name \in Factories, message \in RawMessages : Factory(name, message)
    \/ \E error \in RawErrors \cup ClassifiedErrors : WithErrorHandling(error)
    \/ \E outcome \in GenerateOutcomes : RunAIAssistant(outcome)

SpecErr == InitErr /\ [][NextErr]_vars

\* The settings panel next to a project imported from the remote, one of
\* whose files was edited
InitPanel ==
    /\ InitRLIdle
    /\ InitCommitIdle
    /\ projects = <<[key |-> "o/r", val |-> <<NewFile("README.md", "c2", TRUE)>>]>>
    /\ projectSources = <<[key |-> "o/r", val |-> GithubSource(BaseSha)]>>
    /\ activeProjectName = "o/r"
    /\ lastOp = NoOp
    /\ persisted = NothingPersisted
    /\ nOps = 0
    /\ activeFilePath = "README.md"
    /\ isLoading = FALSE
    /\ modalConfig = Null
    /\ settings \in {NoSettings,
                     [githubToken |-> "ghp_A",
                      githubUser |-> [name |-> "alice", email |-> "alice@e"]]}
    /\ inflight = <<>>
    /\ api = ApiIdle
    /\ rendered = NoRender
    /\ created = <<>>
    /\ eh = NoErrorState
    /\ panel = PanelMounted(settings)

PanelResponses ==
    {[status |-> 200, body |-> NoBody], [status |-> 204, body |-> NoBody],
     [status |-> 401, body |-> [parsed |-> TRUE, message |-> "Bad credentials"]]}

NextPanel ==
    \/ \E value \in PanelTokens : handleTokenInputChange(value)
    \/ handleTokenSave
    \/ SaveStatusTimeout
    \/ handleVerifyToken
    \/ \E i \in 1..MaxInFlight, status \in {200, 401}, scopes \in ScopeInputs :
          VerifyRespUser(i, status, scopes)
    \/ \E i \in 1..MaxInFlight, resp \in PanelResponses,
          emails \in UNION {EmailAnswers(userData(t).login) : t \in PanelTokens} :
          VerifyRespEmails(i, resp, emails)
    \/ handleCommitToGithub
    \/ \E commitMessage \in CommitMessageInputs : CommitConfirm(commitMessage)
    \/ \E i \in 1..MaxInFlight, ok \in BOOLEAN : CommitDone(i, ok)
    \/ CloseModal

SpecPanel == InitPanel /\ [][NextPanel]_vars

\* The App component after its first render; the settings are the defaults
\* or the token and verified user kept in localStorage.
Init ==
    /\ InitRLIdle
    /\ InitCommitIdle
    /\ projects = <<[key |-> "Welcome Project", val |-> initialProject]>>
    /\ projectSources = <<[key |-> "Welcome Project", val |-> MemorySource]>>
    /\ activeProjectName = "Welcome Project"
    /\ lastOp = NoOp
    /\ persisted = [NothingPersisted EXCEPT
                        !["Welcome Project"] = CleanContents(initialProject)]
    /\ nOps = 0
    /\ activeFilePath = "prompt.txt"
    /\ isLoading = FALSE
    /\ modalConfig = Null
    /\ settings \in {NoSettings, VerifiedSettings}
    /\ inflight = <<>>
    /\ InitExtIdle

Next ==
    \/ \E path \in Paths : handleFileSelect(path)
    \/ \E name \in NameInputs : handleProjectSelect(name)
    \/ \E newContent \in EditorInputs : handleEditorChange(newContent)
    \/ handleImportFromGithub
    \/ \E repoPath \in RepoPaths : ImportConfirm(repoPath)
    \/ \E i \in 1..MaxInFlight, ok \in BOOLEAN : ImportDone(i, ok)
    \/ OverwriteConfirm
    \/ handleCommitToGithub
    \/ \E commitMessage \in CommitMessageInputs : CommitConfirm(commitMessage)
    \/ \E i \in 1..MaxInFlight, ok \in BOOLEAN : CommitDone(i, ok)
    \/ \E operation \in AIOperations \cup {"GENERATE"} : handleRunAI(operation)
    \/ \E projectName \in GenerateNames : GenerateConfirm(projectName)
    \/ \E i \in 1..MaxInFlight, ok \in BOOLEAN : GenerateDone(i, ok)
    \/ \E i \in 1..MaxInFlight, ok \in BOOLEAN,
           changedFiles \in ChangedFilesAnswers : AiDone(i, ok, changedFiles)
    \/ CloseModal

Spec == Init /\ [][Next]_vars

\* The operations in flight at once in the runs of SpecSettle
MaxPending == 1

\* The App component with a repository imported and edited and, in half of
\* the initial states, a folder named demo opened and edited.
SettleProjects ==
    {<<[key |-> "Welcome Project", val |-> initialProject],
       [key |-> "o/r", val |-> <<NewFile("README.md", "c2", TRUE)>>]>>,
     <<[key |-> "Welcome Project", val |-> initialProject],
       [key |-> "o/r", val |-> <<NewFile("README.md", "c2", TRUE)>>],
       [key |-> "demo", val |-> <<NewFile("README.md", "c2", TRUE)>>]>>}

SettleSource(name) ==
    IF name = "o/r" THEN GithubSource(BaseSha)
    ELSE IF name = "demo" THEN LocalSource ELSE MemorySource

InitSettle ==
    /\ InitRLIdle
    /\ InitCommitIdle
    /\ projects \in SettleProjects
    /\ projectSources =
          [i \in 1..Len(projects) |->
              [key |-> projects[i].key, val |-> SettleSource(projects[i].key)]]
    /\ activeProjectName \in {projects[i].key : i \in 1..Len(projects)}
    /\ lastOp = NoOp
    /\ persisted = [NothingPersisted EXCEPT
                        !["Welcome Project"] = CleanContents(initialProject)]
    /\ nOps = 0
    /\ activeFilePath = "README.md"
    /\ isLoading = FALSE
    /\ modalConfig = Null
    /\ settings = VerifiedSettings
    /\ inflight = <<>>
    /\ InitExtIdle

ImportSettles == \E i \in 1..MaxInFlight, ok \in BOOLEAN : ImportDone(i, ok)
CommitSettles == \E i \in 1..MaxInFlight, ok \in BOOLEAN : CommitDone(i, ok)
SaveSettles == \E i \in 1..MaxInFlight, ok \in BOOLEAN : SaveDone(i, ok)
GenerateSettles == \E i \in 1..MaxInFlight, ok \in BOOLEAN : GenerateDone(i, ok)
AiSettles ==
    \E i \in 1..MaxInFlight, ok \in BOOLEAN,
       changedFiles \in ChangedFilesAnswers : AiDone(i, ok, changedFiles)

\* The user starts an operation while fewer than MaxPending are in flight
MayStart == Len(inflight) < MaxPending

NextSettle ==
    \/ handleImportFromGithub
    \/ MayStart /\ \E repoPath \in RepoPaths : ImportConfirm(repoPath)
    \/ ImportSettles
    \/ OverwriteConfirm
    \/ handleCommitToGithub
    \/ MayStart /\ \E commitMessage \in CommitMessageInputs :
                      CommitConfirm(commitMessage)
    \/ CommitSettles
    \/ MayStart /\ handleSaveActiveFile
    \/ SaveSettles
    \/ MayStart /\ \E operation \in AIOperations \cup {"GENERATE"} :
                      handleRunAI(operation)
    \/ MayStart /\ \E projectName \in GenerateNames : GenerateConfirm(projectName)
    \/ GenerateSettles
    \/ AiSettles
    \/ CloseModal

\* Every remote call and every disk call eventually responds: a call in
\* flight does not wait for ever.
SpecSettle ==
    /\ InitSettle
    /\ [][NextSettle]_vars
    /\ WF_vars(ImportSettles)
    /\ WF_vars(CommitSettles)
    /\ WF_vars(SaveSettles)
    /\ WF_vars(GenerateSettles)
    /\ WF_vars(AiSettles)


-----------------------------------------------------------------------------
(* The rate limiter: claim C10 *)

\* The admitted calls before the last isAllowed() call
AdmittedBefore ==
    IF rlLast.allowed THEN SubSeq(admitted, 1, Len(admitted) - 1) ELSE admitted

\* C10: with ceiling N and window W, a call that finds N admitted calls
\* less than W old is refused, and a call made once W has elapsed since the
\* earliest call still in the log is admitted.
C10_SlidingWindow ==
    rlLast.called =>
        /\ Cardinality({i \in 1..Len(AdmittedBefore) :
                           rlLast.at - AdmittedBefore[i] < RLWindow}) >= RLMax
              => ~rlLast.allowed
        /\ (rlLast.before # <<>>
            /\ rlLast.at - MinOf(Range(rlLast.before)) >= RLWindow)
              => rlLast.allowed

\* A full log whose earliest entry is exactly W old lets the call through,
\* after an earlier call was refused.
C10_Witness ==
    /\ rlLast.called /\ rlLast.allowed /\ rlLast.everRefused
    /\ Len(rlLast.before) = RLMax
    /\ rlLast.at - MinOf(Range(rlLast.before)) = RLWindow

-----------------------------------------------------------------------------
(* The commit pipeline: claims C1 to C3 *)

PatchCalls == {i \in 1..Len(calls) : calls[i].kind = "PATCH ref"}

\* A stage ahead of the ref update failed: a request was answered with an
\* error, could not be encoded, or was refused by the limiter.
StageFailed ==
    \/ cresult.stage \in {"base", "blobs", "tree", "commit"}
    \/ \E i \in DOMAIN blobSt : blobSt[i] \in {"err", "refused", "threw"}

\* C1: when any stage ahead of the ref update fails, the run sends no
\* PATCH refs/heads/{branch} and the branch is not moved by this run.
C1_NoRefUpdateOnFailure ==
    StageFailed => /\ PatchCalls = {}
                   /\ remoteHead \in {BaseSha, OtherSha}

\* One blob was created, another failed, and the call was rejected.
C1_Witness ==
    /\ cpc = "failed" /\ cresult.stage = "blobs"
    /\ \E i, j \in DOMAIN blobSt : blobSt[i] = "ok" /\ blobSt[j] = "err"

\* C2: a successful commit of N files sent GET commit B, N blob creations,
\* one tree creation on B's tree, one commit creation with parents = [B]
\* and author = committer, one ref update with the new commit, in that
\* order and nothing else, and returned the new commit SHA.
C2_CommitProtocol ==
    cpc = "done" =>
        LET a == SvcArgs(cargs)
            N == Len(a.files)
        IN  /\ Len(calls) = N + 4
            /\ calls[1].kind = "GET commit"
            /\ calls[1].sha = a.baseCommitSha
            /\ \A i \in 1..N : calls[1 + i].kind = "POST blob"
            /\ calls[N + 2].kind = "POST tree"
            /\ calls[N + 2].base_tree = TreeOfCommit(a.baseCommitSha)
            /\ Len(calls[N + 2].tree) = N
            /\ calls[N + 3].kind = "POST commit"
            /\ calls[N + 3].tree = TreeSha(calls[N + 2].base_tree, calls[N + 2].tree)
            /\ calls[N + 3].parents = <<a.baseCommitSha>>
            /\ calls[N + 3].author = calls[N + 3].committer
            /\ calls[N + 4].kind = "PATCH ref"
            /\ calls[N + 4].sha = CommitSha(calls[N + 3].tree, calls[N + 3].parents)
            /\ cresult.status = "ok"
            /\ cresult.sha = calls[N + 4].sha
            /\ remoteHead = cresult.sha

\* A commit of two files went through.
C2_Witness ==
    cpc = "done" /\ Len(SvcArgs(cargs).files) >= 2

InvalidCommitArgs(a) ==
    \/ a.owner = "" \/ a.repo = "" \/ a.branch = "" \/ a.baseCommitSha = ""
    \/ Len(a.files) = 0
    \/ Trim(a.message) = <<>>
    \/ a.author = Null \/ a.author.name = "" \/ a.author.email = ""

\* C3: a call with an empty owner, repo, branch or baseCommitSha, no files,
\* a blank message or an author without name or email throws a Validation
\* error; no request was sent and the limiter's log is as it was.
C3_ValidationBeforeNetwork ==
    (cpc # "idle" /\ InvalidCommitArgs(cargs)) =>
        /\ cresult.status = "threw"
        /\ cresult.error = "VALIDATION"
        /\ calls = <<>>
        /\ requests = reqAtCall

-----------------------------------------------------------------------------
(* The project store: claims C5 to C9 *)

\* C5: in a project whose source is Local or GitHub, every file whose dirty
\* flag is false holds the content last stored at the source for its path.
C5_CleanMeansPersisted ==
    \A k \in 1..Len(projects) :
        LET name == projects[k].key
            files == projects[k].val
        IN  (ObjHas(projectSources, name)
             /\ ObjGet(projectSources, name).type \in {"local", "github"})
            => \A i \in 1..Len(files) :
                   ~files[i].isDirty => files[i].content = persisted[name][files[i].path]

\* C6: after updateFile on an existing file the file is dirty, whatever the
\* kind of source of its project.
C6_UpdateFileMarksDirty ==
    (lastOp.op = "updateFile" /\ ~lastOp.threw)
        => \A i \in At(ActiveFiles, lastOp.path) : ActiveFiles[i].isDirty

\* C7 as stated: after updateFile(P, content) the project holds exactly one
\* file with path P, it holds the new content, and every file with another
\* path is as it was.
C7_ExactlyOneAfterUpdate ==
    (lastOp.op = "updateFile" /\ ~lastOp.threw)
        => /\ Cardinality(At(ActiveFiles, lastOp.path)) = 1
           /\ \A i \in At(ActiveFiles, lastOp.path) :
                  ActiveFiles[i].content = lastOp.content
           /\ SelectSeq(ActiveFiles, LAMBDA f : f.path # lastOp.path)
                  = SelectSeq(lastOp.before, LAMBDA f : f.path # lastOp.path)

\* C7 amended: updateFile(P, content) keeps the length of the list and the
\* path at every position; every position that held path P holds the new
\* content and every other position holds the file it held before. So there
\* is exactly one file with path P afterwards exactly when there was one
\* before, and none when P was absent.
C7_UpdateInPlace ==
    (lastOp.op = "updateFile" /\ ~lastOp.threw)
        => /\ Len(ActiveFiles) = Len(lastOp.before)
           /\ \A i \in 1..Len(ActiveFiles) :
                  IF lastOp.before[i].path = lastOp.path
                  THEN /\ ActiveFiles[i].path = lastOp.path
                       /\ ActiveFiles[i].content = lastOp.content
                  ELSE ActiveFiles[i] = lastOp.before[i]

\* updateFile has rewritten the one file with its path, next to a dirty and
\* differently named file that it left alone
C7_Witness ==
    /\ lastOp.op = "updateFile" /\ ~lastOp.threw
    /\ Cardinality(At(lastOp.before, lastOp.path)) = 1
    /\ \E i \in At(lastOp.before, lastOp.path) :
           lastOp.before[i].content # lastOp.content
    /\ \E i \in 1..Len(lastOp.before) :
           lastOp.before[i].path # lastOp.path /\ lastOp.before[i].isDirty
    /\ isDirtyFor(activeProjectName)

\* C8: within every project no two files share a path.
C8_UniquePaths ==
    \A k \in 1..Len(projects) :
        \A i, j \in 1..Len(projects[k].val) :
            projects[k].val[i].path = projects[k].val[j].path => i = j

\* C9: the names that have a file list are the names that have a source
\* descriptor.
C9_NamesMatchSources ==
    Range(ObjKeys(projects)) = Range(ObjKeys(projectSources))

-----------------------------------------------------------------------------
(* The App component: claim C4 *)

\* C4: when a commit of project P has succeeded with the new SHA S, the
\* source descriptor of P is the one it was with baseCommitSha = S, every
\* file of the committed batch is clean, and no file outside the batch has
\* been marked clean.
C4_CommitMarksOnlyBatchClean ==
    (lastOp.op = "CommitDone" /\ ~lastOp.threw) =>
        LET files == ObjGet(projects, lastOp.name)
            batch == lastOp.info.filesToCommit
        IN  /\ ObjGet(projectSources, lastOp.name)
                  = [lastOp.info.source EXCEPT !.baseCommitSha = lastOp.info.sha]
            /\ \A i \in 1..Len(files) :
                   At(batch, files[i].path) # {} => ~files[i].isDirty
            /\ \A i \in 1..Len(files) :
                   (At(batch, files[i].path) = {} /\ lastOp.before[i].isDirty)
                       => files[i].isDirty

-----------------------------------------------------------------------------
(* verifyToken and getRepoContents: claims C11 to C14 and C20 *)

\* C11: every request sent to the hosting API was let through by an
\* isAllowed() check of its own, and a check that refuses sends nothing:
\* the requests sent are as many as the checks that admitted.
C11_EveryRequestAdmitted ==
    Len(calls) = Len(admitted)

\* C12: once the limiter has refused a call made during an import, be it
\* one of steps 1 to 3 or the fetch of one blob, the import has failed and
\* its caller holds a RateLimited error.
C12_RefusalSurfaces ==
    (api.op = "getRepoContents" /\ api.refused > 0) =>
        /\ api.pc = "failed"
        /\ api.result.status = "threw"
        /\ api.result.error = "RATE_LIMIT"

\* The SHAs whose blob fetch succeeded
FetchedBlobs ==
    {api.items[i].sha : i \in {j \in 1..Len(api.items) : api.st[j] = "ok"}}

BlobCalls == {i \in 1..Len(calls) : calls[i].kind = "GET blob"}

\* C13: once steps 1 to 3 have succeeded the import does not fail, and it
\* returns, in the order of the tree, exactly the entries of type blob that
\* pass the text filter and whose blob fetch succeeded, each with the
\* content of its blob and dirty = false, together with the branch head
\* read in step 2.
C13_ImportReturnsFetchedTextBlobs ==
    /\ (api.op = "getRepoContents" /\ BlobCalls # {}) => api.pc # "failed"
    /\ (api.op = "getRepoContents" /\ api.pc = "done") =>
          LET kept == SelectSeq(api.tree,
                          LAMBDA item : /\ item.type = "blob"
                                        /\ isTextFileByPath(item.path)
                                        /\ item.sha \in FetchedBlobs)
              files == api.result.files
          IN  /\ api.result.status = "ok"
              /\ Len(files) = Len(kept)
              /\ \A i \in 1..Len(kept) :
                    /\ files[i].path = kept[i].path
                    /\ files[i].content = BlobContent(kept[i].sha)
                    /\ ~files[i].isDirty
              /\ api.result.latestCommitSha = api.latestCommitSha
              /\ api.result.latestCommitSha \in {BaseSha, OtherSha}

\* Of five blobs three passed the filter and one of those failed to fetch:
\* two files came back.
C13_Witness ==
    /\ api.op = "getRepoContents" /\ api.pc = "done"
    /\ Cardinality({i \in 1..Len(api.tree) : api.tree[i].type = "blob"}) = 5
    /\ Len(api.items) = 3
    /\ Cardinality({i \in 1..Len(api.st) : api.st[i] = "err"}) = 1
    /\ api.st[2] = "err"
    /\ Len(api.result.files) = 2

ErrorTypes ==
    {"VALIDATION", "NETWORK", "AUTH", "AI_SERVICE", "GITHUB", "STORAGE",
     "RATE_LIMIT", "SYSTEM"}

\* C14: when the repository, branch or tree request has failed,
\* getRepoContents has thrown a classified error, no blob was requested,
\* and the caller's projects, source descriptors and active project are
\* what they were before the import.
C14_ImportAbortsBeforeBlobs ==
    (api.op = "getRepoContents" /\ api.pc = "failed") =>
        /\ api.result.status = "threw"
        /\ api.result.error \in ErrorTypes
        /\ BlobCalls = {}
        /\ projects = <<[key |-> "Welcome Project", val |-> initialProject]>>
        /\ projectSources = <<[key |-> "Welcome Project", val |-> MemorySource]>>
        /\ activeProjectName = "Welcome Project"

\* The tree request of an import started from the dialog was answered 404,
\* and the dialog's handler has run to its end.
C14_Witness ==
    /\ api.op = "getRepoContents" /\ api.entry = "app"
    /\ api.pc = "failed" /\ api.failedAt = "tree"
    /\ api.last.resp.status = 404
    /\ api.tree = RepoTree
    /\ api.settled

\* C20: githubFetch turns 401 and 403 into an Auth error, 404 into a
\* NotFound error, 429 into a RateLimited error and any other failure
\* status into a remote-service error that carries the server's message
\* when there is one and the status text otherwise; 204 gives null and any
\* other 2xx the parsed body.
C20_StatusClassification ==
    api.last.called =>
        LET resp == api.last.resp
            out == api.last.out
        IN  /\ resp.status \in {401, 403} => (out.threw /\ out.type = "AUTH")
            /\ resp.status = 404 => (out.threw /\ out.type = "NOT_FOUND")
            /\ resp.status = 429 => (out.threw /\ out.type = "RATE_LIMIT")
            /\ resp.status \in {422, 500} =>
                  /\ out.threw
                  /\ out.type = "GITHUB"
                  /\ IF resp.body.parsed /\ resp.body.message # ""
                     THEN out.message = Msg("", resp.body.message)
                     ELSE out.message.text = statusText(resp.status)
            /\ resp.status = 204 => (~out.threw /\ out.value = Null)
            /\ resp.status = 200 => (~out.threw /\ out.value = ParsedBody)

-----------------------------------------------------------------------------
(* The project calls of the hook: claims C15 to C17 *)

StoreUnchanged ==
    /\ projects = lastOp.before.projects
    /\ projectSources = lastOp.before.projectSources
    /\ activeProjectName = lastOp.before.activeProjectName

\* C15: createProject with a name that breaks the length or charset rule,
\* or that the store already holds (be it since a call made after the last
\* render), has thrown and left projects, sources and active project as
\* they were.
C15_CreateRejectsInvalidOrExisting ==
    (lastOp.op = "createProject"
     /\ (~validateProjectName(lastOp.name) \/ lastOp.info.inStore))
        => (lastOp.threw /\ StoreUnchanged)

\* C16: createProject with a valid name that the store does not hold has
\* installed the given files (the seeded list when none were given) under
\* the name with a Memory source; the name occurs once among the project
\* names and every other project is as it was.
C16_CreateInstalls ==
    (lastOp.op = "createProject"
     /\ validateProjectName(lastOp.name) /\ ~lastOp.info.inStore)
        => /\ ~lastOp.threw
           /\ Cardinality({i \in 1..Len(projects) :
                              projects[i].key = lastOp.name}) = 1
           /\ ObjGet(projects, lastOp.name) =
                  (IF Len(lastOp.info.files) > 0 THEN lastOp.info.files
                   ELSE initialProject)
           /\ ObjHas(projectSources, lastOp.name)
           /\ ObjGet(projectSources, lastOp.name) = MemorySource
           /\ \A i \in 1..Len(lastOp.before.projects) :
                  LET other == lastOp.before.projects[i]
                  IN  /\ ObjHas(projects, other.key)
                      /\ ObjGet(projects, other.key) = other.val

\* C17: deleteProject, called on a store that has rendered, throws when
\* the name is absent; otherwise the project and its descriptor are gone
\* and the others are as they were, the active project is unchanged when
\* it was another one, and is the oldest remaining project (none when no
\* project remains) when it was the deleted one.
C17_DeletePicksOldest ==
    (lastOp.op = "deleteProject" /\ lastOp.info.fresh) =>
        IF ~lastOp.info.inStore
        THEN lastOp.threw /\ StoreUnchanged
        ELSE /\ ~lastOp.threw
             /\ projects = ObjDelete(lastOp.before.projects, lastOp.name)
             /\ projectSources =
                    ObjDelete(lastOp.before.projectSources, lastOp.name)
             /\ activeProjectName =
                    IF lastOp.before.activeProjectName # lastOp.name
                    THEN lastOp.before.activeProjectName
                    ELSE IF created # <<>> THEN created[1] ELSE ""

-----------------------------------------------------------------------------
(* The size guard of a commit: claim C19 *)

\* The files of the batch that are within the ceiling
WithinCeiling(files) ==
    SelectSeq(files, LAMBDA f : ByteSize(f.content) <= MaxFileBytes)

PostBlobCalls == SelectSeq(calls, LAMBDA c : c.kind = "POST blob")

\* C19: through every entry point of a commit, no file above 1,048,576
\* bytes is sent; a batch whose files are all above it fails with
\* Validation and sends nothing; a finished commit has sent the files
\* within the ceiling (a file of exactly that size included) in their
\* order.
C19_SizeGuard ==
    cpc # "idle" =>
        /\ \A i \in 1..Len(PostBlobCalls) :
               \E k \in 1..Len(WithinCeiling(cargs.files)) :
                   PostBlobCalls[i].content =
                       utf8_to_b64(WithinCeiling(cargs.files)[k].content)
        /\ (cargs.files # <<>> /\ WithinCeiling(cargs.files) = <<>>)
               => /\ cresult.error = "VALIDATION"
                  /\ calls = <<>>
        /\ cpc = "done" =>
               PostBlobCalls =
                   [k \in 1..Len(WithinCeiling(cargs.files)) |->
                       PostBlobReq(cargs, WithinCeiling(cargs.files)[k])]

-----------------------------------------------------------------------------
(* The merge of a Refactor or Debug result: claim C18 *)

\* The batch merged by path into a file list: the files of the list whose
\* path is in the batch replaced where they stand, the others kept, the
\* files of the batch with a new path appended in the order of the batch.
MergedByPath(existing, batch) ==
    [i \in 1..Len(existing) |->
        IF At(batch, existing[i].path) = {} THEN existing[i]
        ELSE batch[CHOOSE k \in At(batch, existing[i].path) :
                      \A j \in At(batch, existing[i].path) : j <= k]]
    \o SelectSeq(batch, LAMBDA f : At(existing, f.path) = {})

\* C18: after the result of a Refactor or Debug was merged into a project,
\* its file list is the batch merged by path into the list the project
\* held when the merge was applied.
C18_MergeIntoCurrentFiles ==
    (lastOp.op = "AiDone" /\ lastOp.info # <<>>) =>
        ObjGet(projects, lastOp.name)
            = MergedByPath(lastOp.before, lastOp.info.savedFiles)

-----------------------------------------------------------------------------
(* Error classification: claims C21 and C22 *)

\* C21: an error that is already an AppError when it reaches
\* ErrorHandler.handle, withErrorHandling or the catch block of the
\* assistant call leaves with the kind and the message it came with.
C21_ClassifiedErrorsKept ==
    (eh.site \in {"handle", "withErrorHandling", "runAIAssistant"}
        /\ eh.raised.class = "AppError")
    => (eh.out.type = eh.raised.type /\ eh.out.message = eh.raised.message)

NoSecret(message) ==
    \A i \in DOMAIN message : message[i].shape \notin SecretShapes

\* C22: the message of every error ErrorHandler produces (handle and the
\* factories), surfaced or logged, holds no token, key or e-mail address.
C22_MessagesSanitized ==
    /\ eh.out # NoError => NoSecret(eh.out.message)
    /\ \A i \in 1..Len(eh.logged) : NoSecret(eh.logged[i].message)

-----------------------------------------------------------------------------
(* The blob barrier: claim C25 *)

TreeCalls == {k \in 1..Len(calls) : calls[k].kind = "POST tree"}

\* C25: the tree request goes out only when every blob creation has
\* succeeded, whatever the order of the answers, and its i-th entry pairs
\* the path of the i-th file with the SHA of the blob made of that file's
\* content.
C25_TreeAfterAllBlobsInOrder ==
    \A k \in TreeCalls :
        LET files == SvcArgs(cargs).files
            tree == calls[k].tree
        IN  /\ \A i \in DOMAIN blobSt : blobSt[i] = "ok"
            /\ Len(cloc.arrived) = Len(files)
            /\ \A j \in 1..Len(calls) : calls[j].kind = "POST blob" => j < k
            /\ Len(tree) = Len(files)
            /\ \A i \in 1..Len(files) :
                  /\ tree[i].path = files[i].path
                  /\ tree[i].sha = BlobSha(utf8_to_b64(files[i].content))

\* The tree request of two files whose second blob was answered first
C25_Witness ==
    /\ TreeCalls # {}
    /\ cloc.arrived = <<2, 1>>

-----------------------------------------------------------------------------
(* The limiter under concurrent callers: claim C26 *)

\* The admitted calls in the window of length W that ends with the k-th one
AdmittedInWindow(k) ==
    {j \in 1..Len(admitted) :
        admitted[k] - RLWindow < admitted[j] /\ admitted[j] <= admitted[k]}

\* C26: whatever the order in which the callers reach isAllowed(), the log
\* never holds more than N timestamps, no window of length W holds more
\* than N admitted calls, and a refused call leaves nothing in the log.
C26_AdmitAndRecordAtomic ==
    /\ Len(requests) <= RLMax
    /\ \A k \in 1..Len(admitted) : Cardinality(AdmittedInWindow(k)) <= RLMax
    /\ (rlLast.called /\ ~rlLast.allowed)
          => requests = FilterExpired(rlLast.before, rlLast.at, RLWindow)

\* A githubFetch call was refused although more than N calls were admitted
\* in all: the window has moved on since the first ones.
C26_Witness ==
    /\ eh.site = "githubFetch"
    /\ eh.out # NoError
    /\ ~rlLast.allowed
    /\ Len(admitted) > RLMax

-----------------------------------------------------------------------------
(* The branch moved under the commit: claim C27 *)

\* The PATCH of this run was answered after the branch had moved away from
\* baseCommitSha
PatchAnsweredAfterPush ==
    /\ PatchCalls # {}
    /\ cpc # "ref"
    /\ cloc.pushed

\* C27: when the branch head has moved to another commit before the ref
\* update, the PATCH is not taken: the call fails at the ref stage, a
\* rejection as not a fast-forward (422) is thrown as a GITHUB error, the
\* PATCH is the last request of the run and the only one to the ref, and the
\* branch keeps the head the other party wrote.
C27_NonFastForwardRejected ==
    PatchAnsweredAfterPush
    => /\ cpc = "failed"
       /\ cresult.status # "ok"
       /\ cresult.stage = "ref"
       /\ cloc.refStatus = 422 => cresult.error = "GITHUB"
       /\ Cardinality(PatchCalls) = 1
       /\ calls[Len(calls)].kind = "PATCH ref"
       /\ calls[Len(calls)].sha = cloc.newCommit
       /\ remoteHead = OtherSha

\* The run ended with the rejection of its ref update as not a fast-forward
C27_Witness ==
    /\ PatchAnsweredAfterPush
    /\ cloc.refStatus = 422
    /\ cresult.error = "GITHUB"

-----------------------------------------------------------------------------
(* The failed commit: claim C28 *)

\* The dirty files of a project, "none" when the store does not hold it
DirtyFilesOf(name) ==
    IF ObjHas(projects, name)
    THEN SelectSeq(ObjGet(projects, name), LAMBDA f : f.isDirty)
    ELSE <<"none">>

\* C28: when a commit of a project has failed, the project's source
\* descriptor and its files are what they were when the commit was
\* initiated: the descriptor is the one the commit started from, and the
\* files that are dirty are the files the commit took, with the content it
\* took.
C28_FailedCommitChangesNothing ==
    (lastOp.op = "CommitDone" /\ lastOp.threw)
    => /\ ObjHas(projectSources, lastOp.name)
       /\ ObjGet(projectSources, lastOp.name) = lastOp.info.source
       /\ DirtyFilesOf(lastOp.name) = lastOp.info.filesToCommit

-----------------------------------------------------------------------------
(* One operation at a time: claim C29 *)

\* C29: at most one import, commit or assistant call is in flight, and
\* while one is in flight the busy flag is set, so that the editor and the
\* project controls are disabled.
C29_OneOperationAtATime ==
    /\ Len(inflight) <= 1
    /\ inflight # <<>> => isLoading

-----------------------------------------------------------------------------
(* The refused call: claim C24 *)

\* The error carries the wait: in its context or as a part of its message
CarriesWait(error, wait) ==
    \/ /\ error.context # Null
       /\ "waitTime" \in DOMAIN error.context
       /\ error.context.waitTime = wait
    \/ \E i \in DOMAIN error.message :
          /\ error.message[i].shape = "wait"
          /\ error.message[i].value = wait

\* C24: a githubFetch call the limiter refused has thrown a RATE_LIMIT error
\* that carries the limiter's time until the next slot at that moment, and
\* the refused call has left nothing in the limiter's log.
C24_RefusalCarriesWait ==
    (eh.site = "githubFetch" /\ eh.out # NoError /\ ~rlLast.allowed)
    => LET log == FilterExpired(rlLast.before, rlLast.at, RLWindow)
       IN  /\ eh.out.type = "RATE_LIMIT"
           /\ requests = log
           /\ CarriesWait(eh.out, getTimeUntilReset(log, rlLast.at, RLWindow))

-----------------------------------------------------------------------------
(* The stored identity: claim C23 *)

CommitDialogOpen == modalConfig # Null /\ modalConfig.title = "Commit Changes"

\* C23: the stored user, when there is one, was obtained by a successful
\* identity check of the stored token, whatever the order of typing, saving
\* and verifying; and whenever a commit can be confirmed the stored user has
\* a name and an e-mail address.
C23_StoredUserBelongsToStoredToken ==
    /\ settings.githubUser # Null
          => settings.githubUser \in VerifiedUsers(settings.githubToken)
    /\ CommitDialogOpen
          => /\ settings.githubUser # Null
             /\ settings.githubUser.name # ""
             /\ settings.githubUser.email # ""

\* A commit is in flight after another token was saved while a verification
\* was under way, and the stored token is not the one the panel started with.
C23_Witness ==
    /\ panel.raced
    /\ settings.githubToken = "ghp_B"
    /\ settings.githubUser # Null
    /\ \E i \in 1..Len(inflight) : inflight[i].kind = "commit"

-----------------------------------------------------------------------------
(* Operations settle: claim C30 *)

OperationKinds == {"import", "commit", "save", "generate", "ai"}

InFlight(kind) == \E i \in 1..Len(inflight) : inflight[i].kind = kind

SettledOp(kind) ==
    IF kind = "import" THEN "ImportDone"
    ELSE IF kind = "commit" THEN "CommitDone"
    ELSE IF kind = "save" THEN "SaveDone"
    ELSE IF kind = "generate" THEN "GenerateDone" ELSE "AiDone"

\* C30: provided every remote and disk call eventually responds, an import,
\* commit, save or assistant operation in flight eventually settles, with
\* the busy flag false again after it has settled, on success and on
\* failure; and no step but a handler the user triggers puts a call in
\* flight (nothing is retried automatically).
C30_OperationsSettle ==
    /\ \A kind \in OperationKinds :
          InFlight(kind) ~> (lastOp.op = SettledOp(kind) /\ ~isLoading)
    /\ [][Len(inflight') > Len(inflight) => lastOp' = UiOp]_vars

\* A save to disk has failed, nothing is left in flight and the busy flag
\* is false.
C30_Witness ==
    /\ lastOp.op = "SaveDone" /\ lastOp.threw
    /\ inflight = <<>>
    /\ ~isLoading

=============================================================================
